---- MODULE Spec2Model ----
(***************************************************************************)
(* Loanlytics-AI: natural-language-to-SQL service.                         *)
(*                                                                         *)
(* Components modelled here:                                               *)
(*   - Schema-qualifier repair   backend/app.py  fix_sql_schema_prefixes   *)
(*   - Knowledge context provider backend/ai_knowledge_loader.py           *)
(*   - Knowledge base builder    scripts/comprehensive_ai_training.py      *)
(*                                                                         *)
(* Each component has its own specification (SpecRepair, SpecKB,           *)
(* SpecPattern, SpecBuild); the variables of the other components are     *)
(* held at their idle values.                                              *)
(***************************************************************************)
EXTENDS Integers, Sequences, FiniteSets, TLC

VARIABLES
    \* ---- schema-qualifier repair
    sql,            \* the SQL text handed to fix_sql_schema_prefixes (token sequence)
    fixed_sql,      \* result of one application
    fixed_twice,    \* result of applying it to fixed_sql again
    rpc,            \* "input" | "once" | "twice"
    \* ---- knowledge context provider: singleton load
    artifact_file,  \* data/ai_comprehensive_knowledge.json: "absent" | "corrupt" | "empty" | "loaded"
    kb_instance,    \* the module global _kb_instance: 0 (None) or an instance id
    heap,           \* the AIKnowledgeBase objects constructed so far: id -> self.knowledge
    tpc,            \* each request handler's position in get_knowledge_base()
    tself,          \* the instance a handler is constructing (0: none)
    tret,           \* what get_knowledge_base() returned to the handler (0: nothing yet)
    \* ---- knowledge context provider: intent matching
    knowledge,      \* self.knowledge of the provider that answers
    question_lower, \* the lower-cased question: the set of its words
    pattern,        \* what get_query_pattern returned
    qpc,            \* "ask" | "done"
    \* ---- knowledge base builder (build_comprehensive_knowledge)
    deep_analysis,  \* the fact records read from reports_deep_analysis.json
    table_joins,    \* defaultdict: table -> joins_with, join_conditions, usage_count
    agg_by_table,   \* defaultdict: table -> sum_columns, count_columns, max_columns
    filter_by_table,\* defaultdict: table -> equality_filters, date_filters, null_checks
    artifact,       \* the dictionary `knowledge` being built, section by section
    bpc,            \* the section the builder is about to build
    \* ---- report mining batch (deep_analyze_all_reports)
    reports,        \* the rows fetched from bi.report_master, in id order
    report_index,   \* position of the for loop in reports
    detailed_analysis, \* the list the loop appends to
    saved_analysis, \* <<content>> of reports_deep_analysis.json (<<>>: not written)
    mpc,            \* "loop" | "save" | "done"
    \* ---- SQL analyzer (SQLAnalyzer.analyze_query)
    report,         \* the row analysed: report_name and query
    hash_seed,      \* per interpreter run: the iteration order of its sets
    fact,           \* per call of analyze_query: the fact record returned
    apc,            \* number of the next call
    \* ---- knowledge context provider: the methods
    question,       \* the question handed to enhance_question
    table_name,     \* the table handed to get_table_context
    context,        \* what the four methods returned
    vpc,            \* "new" | "ready" | "raised" | the method that returned
    \* ---- rebuild of the artifact file while a provider loads it
    disk,           \* ai_comprehensive_knowledge.json: the chunks written so far
    wpc,            \* the builder's position in the save step
    observed,       \* what load_knowledge got from the file (<<>>: nothing yet)
    opc,            \* the provider's position in load_knowledge
    \* ---- request handlers (/api/query, /api/execute)
    request,        \* the request: endpoint, question or sql
    world,          \* what the database and the agent do during the request
    steps,          \* result['intermediate_steps'] of generate_sql_with_agent
    executed,       \* the SQL texts handed to cursor.execute, in order
    invoked,        \* the calls made on the agent path, in order
    sql_query,      \* process_query's sql_query after the loop over the steps
    response,       \* <<>> or <<the response>>
    hpc             \* the handler's position

repairVars == <<sql, fixed_sql, fixed_twice, rpc>>
kbVars == <<artifact_file, kb_instance, heap, tpc, tself, tret>>
patternVars == <<knowledge, question_lower, pattern, qpc>>
buildVars == <<deep_analysis, table_joins, agg_by_table, filter_by_table, artifact, bpc>>
mineVars == <<reports, report_index, detailed_analysis, saved_analysis, mpc>>
analyzeVars == <<report, hash_seed, fact, apc>>
providerVars == <<question, table_name, context, vpc>>
rebuildVars == <<disk, wpc, observed, opc>>
requestVars == <<request, world, steps, executed, invoked, sql_query, response, hpc>>
vars == <<repairVars, kbVars, patternVars, buildVars, mineVars, analyzeVars, providerVars,
          rebuildVars, requestVars>>

(***************************************************************************)
(* Idle values: what a component's variables hold in the specifications    *)
(* of the other components.                                                *)
(***************************************************************************)
RepairIdle ==
    /\ sql = <<>>
    /\ fixed_sql = <<>>
    /\ fixed_twice = <<>>
    /\ rpc = "idle"

KBIdle ==
    /\ artifact_file = "absent"
    /\ kb_instance = 0
    /\ heap = <<>>
    /\ tpc = <<>>
    /\ tself = <<>>
    /\ tret = <<>>

\* get_query_pattern returned None
NoPattern == [none |-> TRUE, report |-> "", tables |-> <<>>, join |-> <<>>, aggregations |-> <<>>]

PatternIdle ==
    /\ knowledge = [keys |-> {}]
    /\ question_lower = {}
    /\ pattern = NoPattern
    /\ qpc = "idle"

\* an empty Python dict; a dict is a function whose domain is its key set
EmptyDict == [key \in {} |-> {}]

EmptyArtifact ==
    [table_relationships |-> EmptyDict, common_queries |-> EmptyDict,
     aggregation_patterns |-> EmptyDict, filter_patterns |-> EmptyDict]

BuildIdle ==
    /\ deep_analysis = <<>>
    /\ table_joins = EmptyDict
    /\ agg_by_table = EmptyDict
    /\ filter_by_table = EmptyDict
    /\ artifact = EmptyArtifact
    /\ bpc = "idle"

MineIdle ==
    /\ reports = <<>>
    /\ report_index = 0
    /\ detailed_analysis = <<>>
    /\ saved_analysis = <<>>
    /\ mpc = "idle"

AnalyzeIdle ==
    /\ report = <<>>
    /\ hash_seed = <<>>
    /\ fact = <<>>
    /\ apc = 0

ProviderIdle ==
    /\ question = <<>>
    /\ table_name = ""
    /\ context = <<>>
    /\ vpc = "idle"

RebuildIdle ==
    /\ disk = <<>>
    /\ wpc = "idle"
    /\ observed = <<>>
    /\ opc = "idle"

RequestIdle ==
    /\ request = <<>>
    /\ world = <<>>
    /\ steps = <<>>
    /\ executed = <<>>
    /\ invoked = <<>>
    /\ sql_query = <<>>
    /\ response = <<>>
    /\ hpc = "idle"

(***************************************************************************)
(* SQL text.  A text is a sequence of lexical tokens.  Word tokens consist *)
(* of word characters only (letters, digits, underscore), so two adjacent  *)
(* word tokens form one longer word and there is no \b between them.  The  *)
(* alphabet is chosen so that no concatenation of word tokens spells a     *)
(* keyword, schema or table name that is not itself a token.               *)
(***************************************************************************)
Blank == " "
Blanks == "  "
Dot == "."

SpaceTokens == {Blank, Blanks}
\* the word tokens an input text is written with
InputWords == {"FROM", "join", "UPDATE", "encoredb", "financialForms",
               "loan_accounts", "CUSTOMER", "customers", "x"}
\* ... and those the repair can add (table names as the map spells them)
WordTokens ==
    InputWords \cup {"customer"} \cup {"SELECT", "WHERE", "id", "1"}
      \cup {"select", "from", "la", "LIMIT", "3", "5", "7", "10", "100", "DELETE", "DROP",
            "TABLE", "DESCRIBE", "UNION", "IN", "JOIN", "loan_od_disbursements",
            "loan_od_working_registers", "loan_od_repayments"}
Alphabet == InputWords \cup SpaceTokens \cup {Dot}

MaxSqlLen == 4

RECURSIVE SeqsUpTo(_, _)
SeqsUpTo(S, n) ==
    IF n = 0 THEN {<<>>}
    ELSE LET shorter == SeqsUpTo(S, n - 1)
         IN  shorter \cup {Append(s, x) : s \in {t \in shorter : Len(t) = n - 1}, x \in S}

\* str.upper() on one token
UpperTok(t) ==
    CASE t = "join" -> "JOIN"
      [] t = "encoredb" -> "ENCOREDB"
      [] t = "financialForms" -> "FINANCIALFORMS"
      [] t = "loan_accounts" -> "LOAN_ACCOUNTS"
      [] t = "customers" -> "CUSTOMERS"
      [] t = "customer" -> "CUSTOMER"
      [] t = "x" -> "X"
      [] t = "id" -> "ID"
      [] t = "select" -> "SELECT"
      [] t = "from" -> "FROM"
      [] t = "la" -> "LA"
      [] t = "loan_od_disbursements" -> "LOAN_OD_DISBURSEMENTS"
      [] t = "loan_od_working_registers" -> "LOAN_OD_WORKING_REGISTERS"
      [] t = "loan_od_repayments" -> "LOAN_OD_REPAYMENTS"
      [] OTHER -> t

\* two tokens are equal under re.IGNORECASE
SameIgnoreCase(t, u) == UpperTok(t) = UpperTok(u)

IsWord(t) == t \in WordTokens
IsSpace(t) == t \in SpaceTokens

\* table_schema_map, in dictionary (insertion) order; the tables that can
\* occur in a text over Alphabet
table_schema_map ==
    << <<"customers", "encoredb">>,
       <<"loan_accounts", "financialForms">>,
       <<"customer", "financialForms">> >>

KnownSchemas == {"ENCOREDB", "FINANCIALFORMS"}
ClauseKeywords == {"FROM", "JOIN", "UPDATE"}

\* any(f'FROM {schema}.' in sql_upper or f'JOIN {schema}.' in sql_upper ...):
\* a plain substring test on the upper-cased text: keyword, exactly one
\* blank, schema name, dot.
has_schema_prefix(s) ==
    \E i \in 1..Len(s) :
        /\ i + 3 <= Len(s)
        /\ UpperTok(s[i]) \in {"FROM", "JOIN"}
        /\ s[i + 1] = Blank
        /\ UpperTok(s[i + 2]) \in KnownSchemas
        /\ s[i + 3] = Dot

\* \b between positions i and i+1 of s (0 <= i <= Len(s))
WordBoundary(s, i) ==
    IF Len(s) = 0 THEN FALSE
    ELSE IF i = 0 THEN IsWord(s[1])
    ELSE IF i = Len(s) THEN IsWord(s[i])
    ELSE IsWord(s[i]) # IsWord(s[i + 1])

\* end of the maximal run of whitespace tokens starting at position i
\* (i - 1 if s[i] is not whitespace)
RECURSIVE SpaceRunEnd(_, _)
SpaceRunEnd(s, i) ==
    IF i <= Len(s) /\ IsSpace(s[i]) THEN SpaceRunEnd(s, i + 1) ELSE i - 1

\* Position of the last token of a match of
\*   \b(FROM|JOIN|UPDATE)\s+(?!schema\.)table\b      (re.IGNORECASE)
\* that starts at position i, or 0 when there is none.
MatchEnd(s, i, table, schema) ==
    LET k == SpaceRunEnd(s, i + 1)
    IN  IF /\ WordBoundary(s, i - 1)
           /\ UpperTok(s[i]) \in ClauseKeywords
           /\ k >= i + 1
           /\ k + 1 <= Len(s)
           /\ ~ (/\ SameIgnoreCase(s[k + 1], schema)
                 /\ k + 2 <= Len(s)
                 /\ s[k + 2] = Dot)
           /\ SameIgnoreCase(s[k + 1], table)
           /\ WordBoundary(s, k + 1)
        THEN k + 1 ELSE 0

\* replacement = r'\1 ' + schema + '.' + table
ReplacementUpper(keyword, table, schema) == <<UpperTok(keyword), Blank, schema, Dot, table>>

ReplacementSwapped(keyword, table, schema) == <<keyword, Blank, table, Dot, schema>>

Replacement(keyword, table, schema) == <<keyword, Blank, schema, Dot, table>>

\* re.sub(pattern, replacement, fixed_sql): leftmost non-overlapping matches
RECURSIVE re_sub(_, _, _, _)
re_sub(s, i, table, schema) ==
    IF i > Len(s) THEN <<>>
    ELSE LET e == MatchEnd(s, i, table, schema)
         IN  IF e = 0 THEN <<s[i]>> \o re_sub(s, i + 1, table, schema)
             ELSE Replacement(s[i], table, schema) \o re_sub(s, e + 1, table, schema)

\* for table, schema in table_schema_map.items(): fixed_sql = re.sub(...)
RECURSIVE FixLoop(_, _)
FixLoop(s, n) ==
    IF n > Len(table_schema_map) THEN s
    ELSE FixLoop(re_sub(s, 1, table_schema_map[n][1], table_schema_map[n][2]), n + 1)

fix_sql_schema_prefixes(s) ==
    IF has_schema_prefix(s) THEN s ELSE FixLoop(s, 1)

\* Longer texts, built from clauses: a clause keyword, whitespace, and a
\* table reference that is bare or qualified with a schema; the clauses of
\* a text are separated by one blank.
MaxPhrases == 2

\* a table reference: a bare table of the map, or a qualified name
References == {<<"loan_accounts">>, <<"CUSTOMER">>, <<"financialForms", Dot, "x">>}

Phrases ==
    {<<keyword, space>> \o reference :
        keyword \in {"FROM", "join", "UPDATE"}, space \in SpaceTokens,
        reference \in References}

RECURSIVE PhraseTexts(_)
PhraseTexts(n) ==
    IF n = 1 THEN Phrases
    ELSE LET shorter == PhraseTexts(n - 1)
         IN  shorter \cup {text \o <<Blank>> \o phrase : text \in shorter, phrase \in Phrases}

\* SELECT * FROM loan_accounts WHERE id=1
ExampleSql ==
    <<"SELECT", Blank, "*", Blank, "FROM", Blank, "loan_accounts", Blank,
      "WHERE", Blank, "id", "=", "1">>

SqlTexts == SeqsUpTo(Alphabet, MaxSqlLen) \cup PhraseTexts(MaxPhrases) \cup {ExampleSql}

RepairInit ==
    /\ sql \in SqlTexts
    /\ fixed_sql = <<>>
    /\ fixed_twice = <<>>
    /\ rpc = "input"
    /\ KBIdle
    /\ PatternIdle
    /\ BuildIdle
    /\ MineIdle
    /\ AnalyzeIdle
    /\ ProviderIdle
    /\ RebuildIdle
    /\ RequestIdle

\* execute_query / process_query: sql = fix_sql_schema_prefixes(sql)
Repair ==
    /\ rpc = "input"
    /\ fixed_sql' = fix_sql_schema_prefixes(sql)
    /\ rpc' = "once"
    /\ UNCHANGED <<sql, fixed_twice, kbVars, patternVars, buildVars, mineVars, analyzeVars, providerVars, rebuildVars, requestVars>>

\* the repaired text passes through fix_sql_schema_prefixes again
\* (execute_custom_query repairs, then execute_query repairs once more)
RepairAgain ==
    /\ rpc = "once"
    /\ fixed_twice' = fix_sql_schema_prefixes(fixed_sql)
    /\ rpc' = "twice"
    /\ UNCHANGED <<sql, fixed_sql, kbVars, patternVars, buildVars, mineVars, analyzeVars, providerVars, rebuildVars, requestVars>>

RepairNext == Repair \/ RepairAgain

SpecRepair == RepairInit /\ [][RepairNext]_vars

\* C1: schema-qualifier repair is idempotent: repairing the repaired text
\* gives the repaired text, whichever of FROM, JOIN or UPDATE precedes the
\* rewritten table names.
C1_RepairIdempotent == rpc = "twice" => fixed_twice = fixed_sql

\* a text in which the repair rewrote a table after UPDATE, repaired twice
C1_Witness ==
    /\ rpc = "twice"
    /\ fixed_sql # sql
    /\ \E i \in 1..Len(sql) : sql[i] = "UPDATE" /\ MatchEnd(sql, i, "customer", "financialForms") # 0

\* a table name written with a known schema in front of it: the schema name
\* as a word of its own, a dot, a name
QualifiedReference(s, i) ==
    /\ i + 2 <= Len(s)
    /\ i = 1 \/ ~IsWord(s[i - 1])
    /\ UpperTok(s[i]) \in KnownSchemas
    /\ s[i + 1] = Dot
    /\ IsWord(s[i + 2])

\* C13: if the text contains, anywhere, a table reference qualified with a
\* known schema (in any letter case), the repair returns the text unchanged.
C13_AnyQualifiedReferenceSuppresses ==
    (rpc # "input" /\ \E i \in 1..Len(sql) : QualifiedReference(sql, i))
        => fixed_sql = sql

\* the table of the map that a token names, ignoring letter case
IsKnownTable(t) == \E n \in 1..Len(table_schema_map) : SameIgnoreCase(t, table_schema_map[n][1])
KnownTable(t) ==
    table_schema_map[CHOOSE n \in 1..Len(table_schema_map) : SameIgnoreCase(t, table_schema_map[n][1])]

\* Position of the table name of a bare reference whose clause keyword is at
\* position i (the keyword a word of its own, then whitespace, then the name of
\* a table of the map as a word of its own), or 0.
BareReferenceEnd(s, i) ==
    LET k == SpaceRunEnd(s, i + 1)
    IN  IF /\ i = 1 \/ ~IsWord(s[i - 1])
           /\ UpperTok(s[i]) \in ClauseKeywords
           /\ k >= i + 1
           /\ k + 1 <= Len(s)
           /\ IsKnownTable(s[k + 1])
           /\ k + 1 = Len(s) \/ ~IsWord(s[k + 2])
        THEN k + 1 ELSE 0

\* the text with every bare reference written as
\* <keyword as written> <schema>.<table>, everything else as it was
RECURSIVE Qualified(_, _)
Qualified(s, i) ==
    IF i > Len(s) THEN <<>>
    ELSE LET e == BareReferenceEnd(s, i)
         IN  IF e = 0 THEN <<s[i]>> \o Qualified(s, i + 1)
             ELSE <<s[i], Blank, KnownTable(s[e])[2], Dot, KnownTable(s[e])[1]>>
                      \o Qualified(s, e + 1)

\* no known schema name followed by a dot anywhere in the text
NoQualifiedReference(s) ==
    \A i \in 1..Len(s) :
        ~ (UpperTok(s[i]) \in KnownSchemas /\ i + 1 <= Len(s) /\ s[i + 1] = Dot)

ExampleFixed ==
    <<"SELECT", Blank, "*", Blank, "FROM", Blank, "financialForms", Dot,
      "loan_accounts", Blank, "WHERE", Blank, "id", "=", "1">>

\* C14: in a text without schema-qualified reference, every bare reference
\* to a table of the map after FROM, JOIN or UPDATE (in any letter case) is
\* rewritten to '<keyword as written> <schema>.<table>' and nothing else
\* changes; 'SELECT * FROM loan_accounts WHERE id=1' becomes
\* 'SELECT * FROM financialForms.loan_accounts WHERE id=1'.
C14_BareReferencesQualified ==
    /\ (rpc # "input" /\ NoQualifiedReference(sql)) => fixed_sql = Qualified(sql, 1)
    /\ (rpc # "input" /\ sql = ExampleSql) => fixed_sql = ExampleFixed

\* a repaired text with two bare references, one of them after a lower-case
\* join and with the table name in upper case
C14_Witness ==
    /\ rpc = "once"
    /\ NoQualifiedReference(sql)
    /\ \E i, j \in 1..Len(sql) :
          /\ i # j
          /\ sql[i] = "join"
          /\ BareReferenceEnd(sql, i) # 0
          /\ sql[BareReferenceEnd(sql, i)] = "CUSTOMER"
          /\ BareReferenceEnd(sql, j) # 0
    /\ fixed_sql # sql

(***************************************************************************)
(* Knowledge context provider: the lazily created singleton.               *)
(*                                                                         *)
(* The web application serves requests on several threads; each handler    *)
(* that reaches the agent path calls get_knowledge_base().  A thread can   *)
(* be preempted between any two of the steps below (the load does file     *)
(* I/O), so each step is an action of its own.                             *)
(***************************************************************************)
NumThreads == 2
Threads == 1..NumThreads

\* what the artifact file can hold
FileStates == {"absent", "corrupt", "empty", "loaded"}

KBInit ==
    /\ artifact_file \in FileStates
    /\ kb_instance = 0
    /\ heap = <<>>
    /\ tpc = [t \in Threads |-> "call"]
    /\ tself = [t \in Threads |-> 0]
    /\ tret = [t \in Threads |-> 0]
    /\ RepairIdle
    /\ PatternIdle
    /\ BuildIdle
    /\ MineIdle
    /\ AnalyzeIdle
    /\ ProviderIdle
    /\ RebuildIdle
    /\ RequestIdle

\* get_knowledge_base: if _kb_instance is None
KBCheck(t) ==
    /\ tpc[t] = "call"
    /\ tpc' = [tpc EXCEPT ![t] = IF kb_instance = 0 THEN "construct" ELSE "return"]
    /\ UNCHANGED <<artifact_file, kb_instance, heap, tself, tret, repairVars, patternVars, buildVars, mineVars, analyzeVars, providerVars, rebuildVars, requestVars>>

\* variant: the new object is stored in the global before it is loaded
KBConstructPublishes(t) ==
    /\ tpc[t] = "construct"
    /\ heap' = Append(heap, "None")
    /\ tself' = [tself EXCEPT ![t] = Len(heap) + 1]
    /\ kb_instance' = Len(heap) + 1
    /\ tpc' = [tpc EXCEPT ![t] = "load"]
    /\ UNCHANGED <<artifact_file, tret, repairVars, patternVars, buildVars, mineVars,
                   analyzeVars, providerVars, rebuildVars, requestVars>>

\* AIKnowledgeBase.__init__: self.knowledge = None
KBConstruct(t) ==
    /\ tpc[t] = "construct"
    /\ heap' = Append(heap, "None")
    /\ tself' = [tself EXCEPT ![t] = Len(heap) + 1]
    /\ tpc' = [tpc EXCEPT ![t] = "load"]
    /\ UNCHANGED <<artifact_file, kb_instance, tret, repairVars, patternVars, buildVars, mineVars, analyzeVars, providerVars, rebuildVars, requestVars>>

\* the value load_knowledge stores for a file state; "raise" when json.load
\* raises JSONDecodeError (load_knowledge has no handler)
LoadedKnowledge(file) ==
    CASE file = "absent" -> "empty"
      [] file = "corrupt" -> "raise"
      [] OTHER -> file

\* AIKnowledgeBase.load_knowledge, called from __init__
KBLoad(t) ==
    /\ tpc[t] = "load"
    /\ LET k == LoadedKnowledge(artifact_file)
       IN  IF k = "raise"
           THEN /\ tpc' = [tpc EXCEPT ![t] = "raised"]
                /\ UNCHANGED heap
           ELSE /\ heap' = [heap EXCEPT ![tself[t]] = k]
                /\ tpc' = [tpc EXCEPT ![t] = "assign"]
    /\ UNCHANGED <<artifact_file, kb_instance, tself, tret, repairVars, patternVars, buildVars, mineVars, analyzeVars, providerVars, rebuildVars, requestVars>>

\* get_knowledge_base: _kb_instance = AIKnowledgeBase()   (the store)
KBAssign(t) ==
    /\ tpc[t] = "assign"
    /\ kb_instance' = tself[t]
    /\ tpc' = [tpc EXCEPT ![t] = "return"]
    /\ UNCHANGED <<artifact_file, heap, tself, tret, repairVars, patternVars, buildVars, mineVars, analyzeVars, providerVars, rebuildVars, requestVars>>

\* get_knowledge_base: return _kb_instance   (reads the global again)
KBReturn(t) ==
    /\ tpc[t] = "return"
    /\ tret' = [tret EXCEPT ![t] = kb_instance]
    /\ tpc' = [tpc EXCEPT ![t] = "done"]
    /\ UNCHANGED <<artifact_file, kb_instance, heap, tself, repairVars, patternVars, buildVars, mineVars, analyzeVars, providerVars, rebuildVars, requestVars>>

KBNext ==
    \E t \in Threads :
        \/ KBCheck(t)
        \/ KBConstruct(t)
        \/ KBLoad(t)
        \/ KBAssign(t)
        \/ KBReturn(t)

SpecKB == KBInit /\ [][KBNext]_vars

\* C2: when several handlers call get_knowledge_base() concurrently before
\* any instance exists, the knowledge base is constructed exactly once and
\* every caller receives that same instance.
C2_ConstructedOnce ==
    /\ Len(heap) <= 1
    /\ \A t \in Threads, u \in Threads :
           (tpc[t] = "done" /\ tpc[u] = "done") => tret[t] = tret[u]

\* C3: if the artifact file is absent or not parseable, constructing the
\* provider does not raise to the caller; the provider ends usable, with
\* empty knowledge.
C3_ConstructionNeverRaises ==
    artifact_file \in {"absent", "corrupt"} =>
        \A t \in Threads :
            /\ tpc[t] # "raised"
            /\ tpc[t] = "done" => heap[tret[t]] = "empty"

\* C22: get_knowledge_base never hands out a partially loaded provider:
\* every instance it returns, also under concurrent first access, has its
\* knowledge set by a finished load, never the initial None.
C22_ReturnedInstanceIsLoaded ==
    \A t \in Threads :
        tpc[t] = "done" =>
            /\ tret[t] \in 1..Len(heap)
            /\ heap[tret[t]] # "None"
            /\ heap[tret[t]] = LoadedKnowledge(artifact_file)

\* a handler got its instance while another handler's object was
\* constructed but not yet loaded
C22_Witness ==
    \E t \in Threads, u \in Threads :
        /\ tpc[t] = "done"
        /\ tpc[u] = "load"
        /\ heap[tself[u]] = "None"
        /\ tret[t] # tself[u]

(***************************************************************************)
(* Texts of bounded length.  A text that the code cuts (expr[:50],         *)
(* condition[:100]) is a sequence of chunks of ChunkLen characters each,   *)
(* so a cut to n characters keeps the first n / ChunkLen chunks.           *)
(***************************************************************************)
ChunkLen == 50

Min(a, b) == IF a < b THEN a ELSE b

\* seq[:n] of a Python list
Take(seq, n) == SubSeq(seq, 1, Min(Len(seq), n))

\* text[:chars]
Cut(text, chars) == Take(text, chars \div ChunkLen)

(***************************************************************************)
(* Knowledge context provider: intent matching (get_query_pattern).        *)
(*                                                                         *)
(* A question is the set of its words; a keyword test `kw in question`     *)
(* is a substring test, and since no keyword holds a blank it is decided   *)
(* word by word.                                                           *)
(***************************************************************************)
Vocabulary == {"product", "disbursement", "disbursed", "customer", "loan",
               "amount", "branch", "collection", "outstanding", "portfolio",
               "compare", "npa"}

MaxWords == 3

\* the keywords of the rules that occur in a word as a substring
KeywordsIn(w) ==
    CASE w = "disbursement" -> {"disbursement", "disburse", "disburs"}
      [] w = "disbursed" -> {"disburse", "disburs"}
      [] w = "accounts" -> {"accounts", "account", "count"}
      [] w = "customers" -> {"customers", "customer"}
      [] w = "compare" -> {"par"}
      [] OTHER -> {w}

\* kw in question_lower
Has(q, kw) == \E w \in q : kw \in KeywordsIn(w)

Buckets == <<"product_disbursement", "customer_loan_amount", "branch_collection",
             "outstanding_report", "par_npa_report">>
BucketNames == {Buckets[i] : i \in 1..Len(Buckets)}

\* the condition of the if-statement that guards each bucket, in the order
\* of the statements
RuleMatches(n, q) ==
    CASE n = 1 -> Has(q, "product") /\ (Has(q, "disbursement") \/ Has(q, "disburse"))
      [] n = 2 -> Has(q, "customer") /\ (Has(q, "outstanding") \/ Has(q, "loan") \/ Has(q, "amount"))
      [] n = 3 -> Has(q, "branch") /\ Has(q, "collection")
      [] n = 4 -> Has(q, "outstanding") \/ Has(q, "portfolio")
      [] n = 5 -> Has(q, "par") \/ Has(q, "npa")

\* exemplars as the builder stores them
Exemplar1 ==
    [report |-> "Branch Collection Summary",
     tables |-> <<"repayments", "branch_master">>,
     joins |-> <<[table |-> "branch_master", condition |-> <<"r.branch_id=b.id">>]>>,
     aggregations |-> <<[function |-> "SUM", expression |-> <<"SUM(r.principal_magnitude) AS total">>]>>]

Exemplar2 ==
    [report |-> "Portfolio Outstanding",
     tables |-> <<"loan_accounts">>,
     joins |-> <<>>,
     aggregations |-> <<>>]

BucketValues == {<<>>, <<Exemplar1>>, <<Exemplar2, Exemplar1>>}

\* the slices of _format_pattern
TablesShown == 5
ConditionShown == 100
AggsShown == 3

\* _format_pattern: the parts of the description, in order
format_pattern(p) ==
    [none |-> FALSE,
     report |-> p.report,
     tables |-> Take(p.tables, TablesShown),
     join |-> IF p.joins = <<>> THEN <<>>
              ELSE <<[table |-> p.joins[1].table,
                      condition |-> Cut(p.joins[1].condition, ConditionShown)]>>,
     aggregations |-> [i \in 1..Min(Len(p.aggregations), AggsShown) |-> p.aggregations[i].function]]

\* self.knowledge.get('common_queries', {}).get(bucket, [])
BucketOf(k, n) ==
    IF "common_queries" \in k.keys THEN k.common_queries[Buckets[n]] ELSE <<>>

\* the n-th if-statement of get_query_pattern and those after it
RECURSIVE RulesFromFirstMatchOnly(_, _, _)
RulesFromFirstMatchOnly(k, q, n) ==
    IF n > Len(Buckets) THEN NoPattern
    ELSE IF RuleMatches(n, q)
         THEN IF BucketOf(k, n) # <<>> THEN format_pattern(BucketOf(k, n)[1]) ELSE NoPattern
         ELSE RulesFromFirstMatchOnly(k, q, n + 1)

RECURSIVE RulesFromReversed(_, _, _)
RulesFromReversed(k, q, n) ==
    IF n < 1 THEN NoPattern
    ELSE IF RuleMatches(n, q) /\ BucketOf(k, n) # <<>>
         THEN format_pattern(BucketOf(k, n)[1])
         ELSE RulesFromReversed(k, q, n - 1)

RECURSIVE RulesFrom(_, _, _)
RulesFrom(k, q, n) ==
    IF n > Len(Buckets) THEN NoPattern
    ELSE IF RuleMatches(n, q) /\ BucketOf(k, n) # <<>>
         THEN format_pattern(BucketOf(k, n)[1])
         ELSE RulesFrom(k, q, n + 1)

get_query_pattern_Reversed(k, q) ==
    IF k.keys = {} THEN NoPattern ELSE RulesFromReversed(k, q, Len(Buckets))

get_query_pattern_FirstMatchOnly(k, q) ==
    IF k.keys = {} THEN NoPattern ELSE RulesFromFirstMatchOnly(k, q, 1)

get_query_pattern(k, q) ==
    IF k.keys = {} THEN NoPattern ELSE RulesFrom(k, q, 1)

Questions == {q \in SUBSET Vocabulary : Cardinality(q) <= MaxWords}

PatternInit ==
    /\ knowledge \in {[keys |-> {"common_queries"}, common_queries |-> cq] :
                         cq \in [BucketNames -> BucketValues]}
    /\ question_lower \in Questions
    /\ pattern = NoPattern
    /\ qpc = "ask"
    /\ RepairIdle
    /\ KBIdle
    /\ BuildIdle
    /\ MineIdle
    /\ AnalyzeIdle
    /\ ProviderIdle
    /\ RebuildIdle
    /\ RequestIdle

\* enhance_question: pattern = self.get_query_pattern(question_lower)
GetQueryPattern ==
    /\ qpc = "ask"
    /\ pattern' = get_query_pattern(knowledge, question_lower)
    /\ qpc' = "done"
    /\ UNCHANGED <<knowledge, question_lower, repairVars, kbVars, buildVars, mineVars, analyzeVars, providerVars, rebuildVars, requestVars>>

PatternNext == GetQueryPattern

SpecPattern == PatternInit /\ [][PatternNext]_vars

AllBucketsFilled == \A n \in 1..Len(Buckets) : BucketOf(knowledge, n) # <<>>

\* the first rule, in the order of the if-statements, that the question satisfies (0: none)
FirstMatching(q) ==
    IF \E n \in 1..Len(Buckets) : RuleMatches(n, q)
    THEN CHOOSE n \in 1..Len(Buckets) :
             RuleMatches(n, q) /\ \A m \in 1..(n - 1) : ~RuleMatches(m, q)
    ELSE 0

\* C4: the keyword rules are evaluated in a fixed order and the first
\* matching rule wins.  With all buckets non-empty the result is the first
\* exemplar of the bucket of the first rule the question satisfies; so a
\* question that satisfies product+disbursement (rule 1) and
\* outstanding/portfolio (rule 4) gets rule 1's exemplar, and one that
\* satisfies outstanding/portfolio and PAR/NPA (rule 5), and no rule before
\* rule 4, gets rule 4's exemplar.
C4_FirstMatchingRuleWins ==
    (qpc = "done" /\ AllBucketsFilled) =>
        /\ FirstMatching(question_lower) # 0 =>
               pattern = format_pattern(BucketOf(knowledge, FirstMatching(question_lower))[1])
        /\ (RuleMatches(1, question_lower) /\ RuleMatches(4, question_lower)) =>
               pattern = format_pattern(BucketOf(knowledge, 1)[1])
        /\ (RuleMatches(4, question_lower) /\ RuleMatches(5, question_lower)
              /\ FirstMatching(question_lower) = 4) =>
               pattern = format_pattern(BucketOf(knowledge, 4)[1])

\* a question satisfying rules 1 and 4 whose buckets hold different first
\* exemplars, answered
C4_Witness ==
    /\ qpc = "done"
    /\ AllBucketsFilled
    /\ RuleMatches(1, question_lower)
    /\ RuleMatches(4, question_lower)
    /\ BucketOf(knowledge, 1)[1] # BucketOf(knowledge, 4)[1]
    /\ pattern = format_pattern(BucketOf(knowledge, 1)[1])

\* C5 (as claimed): if the first rule that matches the question has an
\* empty bucket, the result is nothing, even when a later rule matches and
\* its bucket is non-empty.
C5_EmptyFirstBucketGivesNothing ==
    (qpc = "done" /\ FirstMatching(question_lower) # 0
       /\ BucketOf(knowledge, FirstMatching(question_lower)) = <<>>) =>
        pattern = NoPattern

\* the rules that match the question and whose bucket holds an exemplar
Answering(k, q) == {n \in 1..Len(Buckets) : RuleMatches(n, q) /\ BucketOf(k, n) # <<>>}

\* C5 (amended): a rule whose bucket is empty is passed over.  The result
\* is the first exemplar of the first rule, in order, that matches and has
\* a non-empty bucket - one category at most - and nothing only when there
\* is no such rule.
C5_FallsThroughEmptyBuckets ==
    qpc = "done" =>
        LET ans == Answering(knowledge, question_lower)
        IN  IF ans = {} THEN pattern = NoPattern
            ELSE \E n \in ans :
                    /\ \A m \in ans : n <= m
                    /\ pattern = format_pattern(BucketOf(knowledge, n)[1])

\* the first matching rule's bucket is empty and a later matching rule answers
C5_Witness ==
    /\ qpc = "done"
    /\ FirstMatching(question_lower) # 0
    /\ BucketOf(knowledge, FirstMatching(question_lower)) = <<>>
    /\ pattern # NoPattern

(***************************************************************************)
(* Knowledge base builder: build_comprehensive_knowledge.                  *)
(*                                                                         *)
(* The builder reads the list of fact records the analyzer saved and       *)
(* builds the artifact section by section; each section is one pass over   *)
(* the whole list followed by the conversion to JSON-serialisable lists.   *)
(***************************************************************************)

\* d[k] = v
Put(d, k, v) == [x \in (DOMAIN d) \cup {k} |-> IF x = k THEN v ELSE d[x]]

\* defaultdict access
Get(d, k, default) == IF k \in DOMAIN d THEN d[k] ELSE default

\* the slices of the conversion steps
TopJoinConditions == 5
TopColumns == 5
TopNullChecks == 3
ExprShown == 50

\* ---- identifiers --------------------------------------------------------
\* str.lower() of an identifier
LowerName(name) ==
    CASE name = "Loan_Accounts" -> "loan_accounts"
      [] name = "LOAN_ACCOUNTS" -> "loan_accounts"
      [] name = "Branch_Master" -> "branch_master"
      [] name = "LA" -> "la"
      [] name = "Status" -> "status"
      [] name = "Value_Date" -> "value_date"
      [] name = "Branch Collection Summary" -> "branch collection summary"
      [] name = "Portfolio Outstanding" -> "portfolio outstanding"
      [] name = "Customer Loan Outstanding" -> "customer loan outstanding"
      [] name = "Product Comparison" -> "product comparison"
      [] name = "Daily Summary" -> "daily summary"
      [] name = "SUM" -> "sum"
      [] name = "Count" -> "count"
      [] OTHER -> name

\* str.upper() of a function name
UpperName(name) ==
    CASE name = "sum" -> "SUM"
      [] name = "Count" -> "COUNT"
      [] name = "count" -> "COUNT"
      [] name = "max" -> "MAX"
      [] name = "avg" -> "AVG"
      [] OTHER -> name

\* the keywords the code looks for that occur in a lower-case identifier
\* as a substring ('par' occurs in 'comparison')
KeywordsOf(lower_name) ==
    CASE lower_name = "branch collection summary" -> {"branch", "collection"}
      [] lower_name = "portfolio outstanding" -> {"portfolio", "outstanding"}
      [] lower_name = "customer loan outstanding" -> {"customer", "loan", "outstanding"}
      [] lower_name = "product comparison" -> {"product", "par"}
      [] lower_name = "loan_accounts" -> {"loan", "account"}
      [] lower_name = "customer" -> {"customer"}
      [] lower_name = "value_date" -> {"date"}
      [] lower_name = "sum" -> {"sum"}
      [] lower_name = "count" -> {"count"}
      [] OTHER -> {}

\* kw in name
NameHas(lower_name, kw) == kw \in KeywordsOf(lower_name)

\* ---- the fact records -------------------------------------------------
T1 == "loan_accounts"
T2 == "customer"
T3 == "branch_master"
T4 == "repayments"
NoAlias == ""

\* a join record of the analyzer; conditions are texts of at most 200
\* characters (4 chunks)
Join(table, condition) == [table |-> table, condition |-> condition]

\* the tables and joins the analyzer extracts from
\*   FROM t1 | FROM t1 JOIN t2 | FROM t2 JOIN t1 | FROM t1 JOIN t2 JOIN t3 |
\*   FROM t1 JOIN t2 JOIN t3 JOIN t4 | FROM t1 x JOIN t1 y JOIN t2 |
\*   FROM t1 JOIN t2 JOIN t2 | FROM t1 x JOIN t1 y JOIN t2 JOIN t3 JOIN t4
\* (tables is list(set of (name, alias)): a table mentioned under two
\* aliases is listed twice, a table mentioned twice without alias once)
JoinSkeletons ==
    { [tables |-> << <<T1, NoAlias>> >>, joins |-> <<>>],
      [tables |-> << <<T1, NoAlias>>, <<T2, NoAlias>> >>,
       joins |-> <<Join(T2, <<"c1">>)>>],
      [tables |-> << <<T2, NoAlias>>, <<T1, NoAlias>> >>,
       joins |-> <<Join(T1, <<"c1">>)>>],
      [tables |-> << <<T1, NoAlias>>, <<T2, NoAlias>>, <<T3, NoAlias>> >>,
       joins |-> <<Join(T2, <<"c1">>), Join(T3, <<"c2", "c2+", "c2++">>)>>],
      [tables |-> << <<T1, NoAlias>>, <<T2, NoAlias>>, <<T3, NoAlias>>, <<T4, NoAlias>> >>,
       joins |-> <<Join(T2, <<"c1">>), Join(T3, <<"c2">>), Join(T4, <<"c3">>)>>],
      [tables |-> << <<T1, "x">>, <<T1, "y">>, <<T2, NoAlias>> >>,
       joins |-> <<Join(T1, <<"c1">>), Join(T2, <<"c2">>)>>],
      [tables |-> << <<T1, NoAlias>>, <<T2, NoAlias>> >>,
       joins |-> <<Join(T2, <<"c1">>), Join(T2, <<"c2">>)>>],
      [tables |-> << <<T1, "x">>, <<T1, "y">>, <<T2, NoAlias>>, <<T3, NoAlias>>, <<T4, NoAlias>> >>,
       joins |-> <<Join(T1, <<"c1">>), Join(T2, <<"c2">>), Join(T3, <<"c3">>),
                   Join(T4, <<"c4">>)>>] }

ReportNames == {"Branch Collection Summary", "Portfolio Outstanding"}

JoinReports ==
    { [report_name |-> n, tables |-> k.tables, joins |-> k.joins,
       aggregations |-> <<>>, filters |-> <<>>] :
        n \in ReportNames, k \in JoinSkeletons }

\* aggregate expressions and filter columns, one chunk each
ExprTexts == <<"sum(x1)", "sum(x2)", "sum(x3)", "sum(x4)", "sum(x5)", "sum(x6)">>
ColNames == <<"status", "branch_id", "product_code", "tenant_code", "is_closed", "urn_no">>
DateColNames == <<"created_date", "value_date", "due_date", "closed_date",
                  "disbursement_date", "repayment_date">>
Expr(i) == <<ExprTexts[i]>>
Col(i) == ColNames[i]
DateCol(i) == DateColNames[i]

\* str.lower() on one chunk
LowerChunk(c) == IF c = "SUM(X1)" THEN "sum(x1)" ELSE c

\* text.lower()
Lower(text) == [i \in 1..Len(text) |-> LowerChunk(text[i])]

\* 'date' in col.lower()
HasDate(col) == \E i \in 1..Len(DateColNames) : col = DateCol(i)

\* 'null' in ftype
IsNullCheck(ftype) == ftype \in {"is_null", "is_not_null"}

Aggs(func, n) == [i \in 1..n |-> [function |-> func, expression |-> Expr(i)]]
Filters(ftype, n) == [i \in 1..n |-> [column |-> Col(i), type |-> ftype]]
DateFilters(ftype, n) == [i \in 1..n |-> [column |-> DateCol(i), type |-> ftype]]

\* what the analyzer extracts from reports that aggregate or filter on one
\* column more than the builder keeps, and from one that mixes the kinds
StatShapes ==
    { [aggregations |-> Aggs("SUM", TopColumns + 1), filters |-> <<>>],
      [aggregations |-> Aggs("COUNT", TopColumns + 1), filters |-> <<>>],
      [aggregations |-> Aggs("MAX", TopColumns + 1), filters |-> <<>>],
      [aggregations |-> <<>>, filters |-> Filters("equality", TopColumns + 1)],
      [aggregations |-> <<>>, filters |-> DateFilters("between", TopColumns + 1)],
      [aggregations |-> <<>>, filters |-> Filters("is_null", TopNullChecks + 1)],
      [aggregations |-> << [function |-> "SUM", expression |-> <<"SUM(X1)">>],
                           [function |-> "SUM", expression |-> <<"sum(x1)", "tail">>],
                           [function |-> "AVG", expression |-> Expr(2)],
                           [function |-> "COUNT", expression |-> Expr(1)] >>,
       filters |-> << [column |-> DateCol(1), type |-> "equality"],
                      [column |-> Col(1), type |-> "in_list"],
                      [column |-> DateCol(2), type |-> "is_not_null"],
                      [column |-> Col(2), type |-> "is_not_null"] >>] }

\* reports over one table (FROM t1), and the mixed one over FROM t1 JOIN t2
StatReports ==
    { [report_name |-> "Branch Collection Summary",
       tables |-> IF Len(st.aggregations) > TopColumns \/ Len(st.filters) > TopNullChecks
                  THEN << <<T1, NoAlias>> >>
                  ELSE << <<T1, NoAlias>>, <<T2, NoAlias>> >>,
       joins |-> IF Len(st.aggregations) > TopColumns \/ Len(st.filters) > TopNullChecks
                 THEN <<>>
                 ELSE <<Join(T2, <<"c1">>)>>,
       aggregations |-> st.aggregations, filters |-> st.filters] : st \in StatShapes }

\* reports over one table whose names satisfy two bucket rules, or none
NamedReports ==
    { [report_name |-> n, tables |-> << <<T1, NoAlias>> >>, joins |-> <<>>,
       aggregations |-> <<>>, filters |-> <<>>] :
        n \in {"Customer Loan Outstanding", "Product Comparison", "Daily Summary"} }

Reports == JoinReports \cup StatReports \cup NamedReports

MaxReports == 2

\* t[0] for t in analysis['tables']
TableNamesOf(analysis) == [i \in 1..Len(analysis.tables) |-> analysis.tables[i][1]]

\* ---- 1. table relationships --------------------------------------------
NewJoinEntry == [joins_with |-> {}, join_conditions |-> <<>>, usage_count |-> 0]

\* variants of the loop body: the self-join test left out; usage counted
\* once per report; usage counted once per distinct joined table
RecordJoinNoSelfTest(tj, table, join, report_name) ==
    LET e == Get(tj, table, NewJoinEntry)
    IN  Put(tj, table,
            [joins_with |-> e.joins_with \cup {join.table},
             join_conditions |-> Append(e.join_conditions,
                                        [with |-> join.table,
                                         condition |-> join.condition,
                                         report |-> report_name]),
             usage_count |-> e.usage_count + 1])

RecordJoinOncePerReport(tj, table, join, report_name) ==
    IF table # join.table
    THEN LET e == Get(tj, table, NewJoinEntry)
             seen == \E i \in 1..Len(e.join_conditions) :
                         e.join_conditions[i].report = report_name
         IN  Put(tj, table,
                 [joins_with |-> e.joins_with \cup {join.table},
                  join_conditions |-> Append(e.join_conditions,
                                             [with |-> join.table,
                                              condition |-> join.condition,
                                              report |-> report_name]),
                  usage_count |-> IF seen THEN e.usage_count ELSE e.usage_count + 1])
    ELSE tj

RecordJoinCountDistinct(tj, table, join, report_name) ==
    IF table # join.table
    THEN LET e == Get(tj, table, NewJoinEntry)
         IN  Put(tj, table,
                 [joins_with |-> e.joins_with \cup {join.table},
                  join_conditions |-> Append(e.join_conditions,
                                             [with |-> join.table,
                                              condition |-> join.condition,
                                              report |-> report_name]),
                  usage_count |-> IF join.table \in e.joins_with THEN e.usage_count
                                  ELSE e.usage_count + 1])
    ELSE tj

\* the body of `for table in tables` (the three updates of table_joins[table])
RecordJoin(tj, table, join, report_name) ==
    IF table # join.table
    THEN LET e == Get(tj, table, NewJoinEntry)
         IN  Put(tj, table,
                 [joins_with |-> e.joins_with \cup {join.table},
                  join_conditions |-> Append(e.join_conditions,
                                             [with |-> join.table,
                                              condition |-> join.condition,
                                              report |-> report_name]),
                  usage_count |-> e.usage_count + 1])
    ELSE tj

\* The loops below carry their variables in a record: the accumulated
\* dictionary (acc) and the position in the list iterated (at).
LoopStart(acc) == [acc |-> acc, at |-> 1]

\* for table in tables
RECURSIVE ForEachTable(_, _, _, _)
ForEachTable(loop, tables, join, report_name) ==
    IF loop.at > Len(tables) THEN loop.acc
    ELSE ForEachTable([acc |-> RecordJoin(loop.acc, tables[loop.at], join, report_name),
                       at |-> loop.at + 1],
                      tables, join, report_name)

\* for join in analysis['joins']
RECURSIVE ForEachJoin(_, _)
ForEachJoin(loop, analysis) ==
    IF loop.at > Len(analysis.joins) THEN loop.acc
    ELSE ForEachJoin([acc |-> ForEachTable(LoopStart(loop.acc), TableNamesOf(analysis),
                                           analysis.joins[loop.at], analysis.report_name),
                      at |-> loop.at + 1],
                     analysis)

\* for analysis in deep_analysis
RECURSIVE CollectJoinsFrom(_, _)
CollectJoinsFrom(loop, analyses) ==
    IF loop.at > Len(analyses) THEN loop.acc
    ELSE CollectJoinsFrom([acc |-> ForEachJoin(LoopStart(loop.acc), analyses[loop.at]),
                           at |-> loop.at + 1],
                          analyses)

\* table_joins after the pass over the fact list
CollectJoins(analyses) == CollectJoinsFrom(LoopStart(EmptyDict), analyses)

\* data['join_conditions'][-5:]
common_join_conditions_last(conditions) ==
    SubSeq(conditions, Len(conditions) - Min(Len(conditions), TopJoinConditions) + 1,
           Len(conditions))

\* data['join_conditions'][:5]
common_join_conditions(conditions) == Take(conditions, TopJoinConditions)

\* the conversion of table_joins; joins_with is list(set): the elements in
\* an unspecified order, kept here as the set
Relationships(tj) ==
    [t \in DOMAIN tj |->
        [joins_with |-> tj[t].joins_with,
         common_join_conditions |-> common_join_conditions(tj[t].join_conditions),
         usage_count |-> tj[t].usage_count]]

\* ---- 3. aggregation patterns, 4. filter patterns -----------------------
NewAggEntry == [sum_columns |-> {}, count_columns |-> {}, max_columns |-> {}]
NewFilterEntry == [equality_filters |-> {}, date_filters |-> {}, null_checks |-> {}]

\* the body of `for table in tables` of the aggregation pass
RecordAgg(ab, table, agg) ==
    LET e == Get(ab, table, NewAggEntry)
        expr == Cut(Lower(agg.expression), ExprShown)
    IN  IF agg.function = "SUM"
        THEN Put(ab, table, [e EXCEPT !.sum_columns = @ \cup {expr}])
        ELSE IF agg.function = "COUNT"
        THEN Put(ab, table, [e EXCEPT !.count_columns = @ \cup {expr}])
        ELSE IF agg.function = "MAX"
        THEN Put(ab, table, [e EXCEPT !.max_columns = @ \cup {expr}])
        ELSE ab

\* the body of `for table in tables` of the filter pass
RecordFilter(fb, table, filter_cond) ==
    LET e == Get(fb, table, NewFilterEntry)
        col == filter_cond.column
    IN  IF filter_cond.type = "equality"
        THEN Put(fb, table, [e EXCEPT !.equality_filters = @ \cup {col}])
        ELSE IF HasDate(col)
        THEN Put(fb, table, [e EXCEPT !.date_filters = @ \cup {col}])
        ELSE IF IsNullCheck(filter_cond.type)
        THEN Put(fb, table, [e EXCEPT !.null_checks = @ \cup {col}])
        ELSE fb

\* for table in tables, of either pass (kind selects the body)
RECURSIVE ForEachTableStat(_, _, _, _)
ForEachTableStat(loop, tables, item, kind) ==
    IF loop.at > Len(tables) THEN loop.acc
    ELSE ForEachTableStat([acc |-> IF kind = "agg"
                                   THEN RecordAgg(loop.acc, tables[loop.at], item)
                                   ELSE RecordFilter(loop.acc, tables[loop.at], item),
                           at |-> loop.at + 1],
                          tables, item, kind)

\* for agg in analysis['aggregations'] / for filter_cond in analysis['filters']
RECURSIVE ForEachItem(_, _, _, _)
ForEachItem(loop, tables, items, kind) ==
    IF loop.at > Len(items) THEN loop.acc
    ELSE ForEachItem([acc |-> ForEachTableStat(LoopStart(loop.acc), tables,
                                               items[loop.at], kind),
                      at |-> loop.at + 1],
                     tables, items, kind)

\* for analysis in deep_analysis, of either pass
RECURSIVE CollectStatsFrom(_, _, _)
CollectStatsFrom(loop, analyses, kind) ==
    IF loop.at > Len(analyses) THEN loop.acc
    ELSE CollectStatsFrom([acc |-> ForEachItem(LoopStart(loop.acc),
                                               TableNamesOf(analyses[loop.at]),
                                               IF kind = "agg"
                                               THEN analyses[loop.at].aggregations
                                               ELSE analyses[loop.at].filters,
                                               kind),
                           at |-> loop.at + 1],
                          analyses, kind)

\* agg_by_table / filter_by_table after the pass over the fact list
CollectStats(analyses, kind) == CollectStatsFrom(LoopStart(EmptyDict), analyses, kind)

\* list(a_set)[:n]: a set is iterated in an order the language does not
\* fix (string hashing is randomised per run), so any min(n, size)
\* elements can be the ones kept.  The list is kept here as the set of its
\* elements.
ListSliceUncapped(a_set, n) == {a_set}

ListSlice(a_set, n) ==
    {kept \in SUBSET a_set : Cardinality(kept) = Min(n, Cardinality(a_set))}

AggregationPatternsOf(e) ==
    { [sum_columns |-> a, count_columns |-> b, max_columns |-> c] :
        a \in ListSlice(e.sum_columns, TopColumns),
        b \in ListSlice(e.count_columns, TopColumns),
        c \in ListSlice(e.max_columns, TopColumns) }

FilterPatternsOf(e) ==
    { [common_equality_filters |-> a, date_filters |-> b, null_checks |-> c] :
        a \in ListSlice(e.equality_filters, TopColumns),
        b \in ListSlice(e.date_filters, TopColumns),
        c \in ListSlice(e.null_checks, TopNullChecks) }

\* the dictionaries the conversion loop of section 3 can produce
AggregationConversions(acc) ==
    {d \in [DOMAIN acc -> UNION {AggregationPatternsOf(acc[t]) : t \in DOMAIN acc}] :
        \A t \in DOMAIN acc : d[t] \in AggregationPatternsOf(acc[t])}

\* the dictionaries the conversion loop of section 4 can produce
FilterConversions(acc) ==
    {d \in [DOMAIN acc -> UNION {FilterPatternsOf(acc[t]) : t \in DOMAIN acc}] :
        \A t \in DOMAIN acc : d[t] \in FilterPatternsOf(acc[t])}

\* ---- 2. common query patterns -------------------------------------------
\* the keys of query_patterns, in the order of the dictionary
PatternTypes == <<"customer_loan_amount", "product_disbursement", "branch_collection",
                 "outstanding_report", "par_npa_report">>

\* the condition of the if-statement that appends to a bucket
PatternRule(n, rn) ==
    CASE n = 1 -> NameHas(rn, "customer") /\ (NameHas(rn, "outstanding") \/ NameHas(rn, "loan"))
      [] n = 2 -> NameHas(rn, "product") \/ NameHas(rn, "disbursement")
      [] n = 3 -> NameHas(rn, "branch") \/ NameHas(rn, "collection")
      [] n = 4 -> NameHas(rn, "outstanding") \/ NameHas(rn, "portfolio")
      [] n = 5 -> NameHas(rn, "par") \/ NameHas(rn, "npa")

\* the dictionary appended to a bucket
ExemplarOf(analysis) ==
    [report |-> analysis.report_name,
     tables |-> TableNamesOf(analysis),
     joins |-> analysis.joins,
     aggregations |-> analysis.aggregations]

\* variant of the loop body: an if / elif chain
ClassifyExclusive(qp, analysis) ==
    LET rn == LowerName(analysis.report_name)
    IN  [b \in DOMAIN qp |->
            IF \E n \in 1..Len(PatternTypes) :
                   /\ PatternTypes[n] = b
                   /\ PatternRule(n, rn)
                   /\ \A m \in 1..(n - 1) : ~PatternRule(m, rn)
            THEN Append(qp[b], ExemplarOf(analysis))
            ELSE qp[b]]

\* the body of `for analysis in deep_analysis`: five independent ifs
Classify(qp, analysis) ==
    LET rn == LowerName(analysis.report_name)
    IN  [b \in DOMAIN qp |->
            IF \E n \in 1..Len(PatternTypes) : PatternTypes[n] = b /\ PatternRule(n, rn)
            THEN Append(qp[b], ExemplarOf(analysis))
            ELSE qp[b]]

RECURSIVE ClassifyFrom(_, _)
ClassifyFrom(loop, analyses) ==
    IF loop.at > Len(analyses) THEN loop.acc
    ELSE ClassifyFrom([acc |-> Classify(loop.acc, analyses[loop.at]), at |-> loop.at + 1],
                      analyses)

\* query_patterns after the loop over the fact list
query_patterns(analyses) ==
    ClassifyFrom(LoopStart([b \in {PatternTypes[n] : n \in 1..Len(PatternTypes)} |-> <<>>]),
                 analyses)

\* ---- the builder --------------------------------------------------------
BuildInit ==
    /\ deep_analysis \in SeqsUpTo(Reports, MaxReports)
    /\ table_joins = EmptyDict
    /\ agg_by_table = EmptyDict
    /\ filter_by_table = EmptyDict
    /\ artifact = EmptyArtifact
    /\ bpc = "relationships"
    /\ RepairIdle
    /\ KBIdle
    /\ PatternIdle
    /\ MineIdle
    /\ AnalyzeIdle
    /\ ProviderIdle
    /\ RebuildIdle
    /\ RequestIdle

\* [1] Building table relationship knowledge
BuildRelationships ==
    /\ bpc = "relationships"
    /\ table_joins' = CollectJoins(deep_analysis)
    /\ artifact' = [artifact EXCEPT !.table_relationships = Relationships(table_joins')]
    /\ bpc' = "queries"
    /\ UNCHANGED <<deep_analysis, agg_by_table, filter_by_table,
                   repairVars, kbVars, patternVars, mineVars, analyzeVars, providerVars, rebuildVars, requestVars>>

\* [2] Building common query patterns
BuildCommonQueries ==
    /\ bpc = "queries"
    /\ artifact' = [artifact EXCEPT !.common_queries = query_patterns(deep_analysis)]
    /\ bpc' = "aggregations"
    /\ UNCHANGED <<deep_analysis, table_joins, agg_by_table, filter_by_table,
                   repairVars, kbVars, patternVars, mineVars, analyzeVars, providerVars, rebuildVars, requestVars>>

\* [3] Learning aggregation patterns
BuildAggregationPatterns ==
    /\ bpc = "aggregations"
    /\ agg_by_table' = CollectStats(deep_analysis, "agg")
    /\ \E d \in AggregationConversions(agg_by_table') :
           artifact' = [artifact EXCEPT !.aggregation_patterns = d]
    /\ bpc' = "filters"
    /\ UNCHANGED <<deep_analysis, table_joins, filter_by_table,
                   repairVars, kbVars, patternVars, mineVars, analyzeVars, providerVars, rebuildVars, requestVars>>

\* [4] Learning filter patterns
BuildFilterPatterns ==
    /\ bpc = "filters"
    /\ filter_by_table' = CollectStats(deep_analysis, "filter")
    /\ \E d \in FilterConversions(filter_by_table') :
           artifact' = [artifact EXCEPT !.filter_patterns = d]
    /\ bpc' = "done"
    /\ UNCHANGED <<deep_analysis, table_joins, agg_by_table,
                   repairVars, kbVars, patternVars, mineVars, analyzeVars, providerVars, rebuildVars, requestVars>>

BuildNext ==
    \/ BuildRelationships
    \/ BuildCommonQueries
    \/ BuildAggregationPatterns
    \/ BuildFilterPatterns

SpecBuild == BuildInit /\ [][BuildNext]_vars

(***************************************************************************)
(* Properties of the built artifact.                                       *)
(***************************************************************************)
rel == artifact.table_relationships
RelationshipsBuilt == bpc \in {"queries", "aggregations", "filters", "done"}

\* The iterations of the innermost loop of pass 1 that update table t:
\* <<n, j, i>> is fact n, its join j, its tables entry i.
Events(t) ==
    {e \in UNION {{<<n, j, i>> : j \in 1..Len(deep_analysis[n].joins),
                                 i \in 1..Len(deep_analysis[n].tables)} :
                  n \in 1..Len(deep_analysis)} :
        /\ deep_analysis[e[1]].tables[e[3]][1] = t
        /\ deep_analysis[e[1]].joins[e[2]].table # t}

\* loop order: facts, then joins, then tables entries
Before(e, f) ==
    \/ e[1] < f[1]
    \/ e[1] = f[1] /\ e[2] < f[2]
    \/ e[1] = f[1] /\ e[2] = f[2] /\ e[3] < f[3]

Rank(t, e) == Cardinality({f \in Events(t) : Before(f, e)}) + 1

RecordOf(e) ==
    [with |-> deep_analysis[e[1]].joins[e[2]].table,
     condition |-> deep_analysis[e[1]].joins[e[2]].condition,
     report |-> deep_analysis[e[1]].report_name]

AllTables == {T1, T2, T3, T4}

\* C6: cap invariant of the built artifact: per table at most 5 join
\* conditions, at most 5 sum, count and max columns, at most 5 equality
\* and date filters, at most 3 null checks.
C6_CapInvariant ==
    /\ \A t \in DOMAIN rel :
           Len(rel[t].common_join_conditions) <= TopJoinConditions
    /\ \A t \in DOMAIN artifact.aggregation_patterns :
           /\ Cardinality(artifact.aggregation_patterns[t].sum_columns) <= TopColumns
           /\ Cardinality(artifact.aggregation_patterns[t].count_columns) <= TopColumns
           /\ Cardinality(artifact.aggregation_patterns[t].max_columns) <= TopColumns
    /\ \A t \in DOMAIN artifact.filter_patterns :
           /\ Cardinality(artifact.filter_patterns[t].common_equality_filters) <= TopColumns
           /\ Cardinality(artifact.filter_patterns[t].date_filters) <= TopColumns
           /\ Cardinality(artifact.filter_patterns[t].null_checks) <= TopNullChecks

\* the builder is done; one table collected more join conditions than are
\* kept and one collected more columns of some kind than are kept
C6_Witness ==
    /\ bpc = "done"
    /\ \E t \in DOMAIN table_joins : Len(table_joins[t].join_conditions) > TopJoinConditions
    /\ \/ \E t \in DOMAIN agg_by_table :
              \/ Cardinality(agg_by_table[t].sum_columns) > TopColumns
              \/ Cardinality(agg_by_table[t].count_columns) > TopColumns
              \/ Cardinality(agg_by_table[t].max_columns) > TopColumns
       \/ \E t \in DOMAIN filter_by_table :
              \/ Cardinality(filter_by_table[t].equality_filters) > TopColumns
              \/ Cardinality(filter_by_table[t].date_filters) > TopColumns
              \/ Cardinality(filter_by_table[t].null_checks) > TopNullChecks

\* C7: common_join_conditions of a table is FIFO-until-full: exactly the
\* first min(5, n) of the n join-condition records accumulated for the
\* table, in processing order; later records are dropped.
C7_JoinConditionsFifo ==
    RelationshipsBuilt =>
        \A t \in AllTables :
            IF Events(t) = {} THEN t \notin DOMAIN rel
            ELSE /\ t \in DOMAIN rel
                 /\ Len(rel[t].common_join_conditions)
                      = Min(TopJoinConditions, Cardinality(Events(t)))
                 /\ \A e \in Events(t) :
                        Rank(t, e) <= TopJoinConditions =>
                            rel[t].common_join_conditions[Rank(t, e)] = RecordOf(e)

\* a table with more than five records, the sixth differing from the first five
C7_Witness ==
    /\ RelationshipsBuilt
    /\ \E t \in DOMAIN rel :
           /\ Cardinality(Events(t)) > TopJoinConditions
           /\ \E e \in Events(t) :
                  /\ Rank(t, e) > TopJoinConditions
                  /\ \A i \in 1..TopJoinConditions :
                         rel[t].common_join_conditions[i] # RecordOf(e)

\* the facts that add to the entry of table t
ContributingFacts(t) == {e[1] : e \in Events(t)}

\* C8 (as claimed): usage_count of t is the number of facts that reference
\* t in a join; one fact adds at most 1.
C8_UsageCountsFacts ==
    RelationshipsBuilt =>
        \A t \in DOMAIN rel : rel[t].usage_count = Cardinality(ContributingFacts(t))

\* C8 (amended): usage_count of t is the number of join-condition records
\* accumulated for t: one for every join of a fact whose joined table is
\* not t, for every entry of the fact's tables that names t.  A fact with
\* several joins, or that lists t under several aliases, adds more than 1.
C8_UsageCountsJoinRecords ==
    RelationshipsBuilt =>
        /\ DOMAIN rel = {t \in AllTables : Events(t) # {}}
        /\ \A t \in DOMAIN rel :
               /\ rel[t].usage_count = Cardinality(Events(t))
               /\ rel[t].usage_count = Len(table_joins[t].join_conditions)

\* a table whose usage_count exceeds the number of facts that use it
C8_Witness ==
    /\ RelationshipsBuilt
    /\ \E t \in DOMAIN rel : rel[t].usage_count > Cardinality(ContributingFacts(t))

\* C9 (as claimed): the recorded relationship is bidirectional: whenever b
\* is in joins_with of a, a is in joins_with of b.
C9_Bidirectional ==
    RelationshipsBuilt =>
        \A a \in DOMAIN rel : \A b \in rel[a].joins_with :
            b \in DOMAIN rel /\ a \in rel[b].joins_with

\* C9 (amended): the relationship is recorded in one direction, from each
\* table a fact lists to each other table the fact joins: b is in
\* joins_with of a exactly when some fact lists a among its tables and has
\* a join whose table is b, b # a; a then has an entry.  The reverse entry
\* exists only when some fact lists b and joins a.
C9_JoinsWithDirected ==
    RelationshipsBuilt =>
        \A a \in AllTables : \A b \in AllTables :
            (a \in DOMAIN rel /\ b \in rel[a].joins_with)
              <=> \E n \in 1..Len(deep_analysis) :
                      /\ a # b
                      /\ \E i \in 1..Len(deep_analysis[n].tables) :
                             deep_analysis[n].tables[i][1] = a
                      /\ \E j \in 1..Len(deep_analysis[n].joins) :
                             deep_analysis[n].joins[j].table = b

\* b is recorded for a and a is not recorded for b
C9_Witness ==
    /\ RelationshipsBuilt
    /\ \E a \in DOMAIN rel : \E b \in rel[a].joins_with :
           b \notin DOMAIN rel \/ a \notin rel[b].joins_with

\* the result of pass 1 on a list of facts, reduced to joins_with and usage_count
JoinsAndUsage(analyses) ==
    LET r == Relationships(CollectJoins(analyses))
    IN  [t \in DOMAIN r |-> [joins_with |-> r[t].joins_with,
                             usage_count |-> r[t].usage_count]]

\* merge of two results: set union of joins_with, sum of usage_count
MergeJoinsAndUsage(l, r) ==
    [t \in (DOMAIN l) \cup (DOMAIN r) |->
        [joins_with |-> (IF t \in DOMAIN l THEN l[t].joins_with ELSE {})
                          \cup (IF t \in DOMAIN r THEN r[t].joins_with ELSE {}),
         usage_count |-> (IF t \in DOMAIN l THEN l[t].usage_count ELSE 0)
                           + (IF t \in DOMAIN r THEN r[t].usage_count ELSE 0)]]

\* C10: splitting the fact list in two, aggregating each part and merging
\* gives, for every table, the joins_with set and the usage_count of the
\* one-pass aggregation of the whole list.
C10_MergeOfParts ==
    RelationshipsBuilt =>
        \A k \in 0..Len(deep_analysis) :
            MergeJoinsAndUsage(JoinsAndUsage(SubSeq(deep_analysis, 1, k)),
                               JoinsAndUsage(SubSeq(deep_analysis, k + 1, Len(deep_analysis))))
              = [t \in DOMAIN rel |-> [joins_with |-> rel[t].joins_with,
                                       usage_count |-> rel[t].usage_count]]

\* two facts that both add the same joined table to the same table
C10_Witness ==
    /\ RelationshipsBuilt
    /\ Len(deep_analysis) = MaxReports
    /\ \E t \in DOMAIN rel :
           /\ 1 \in ContributingFacts(t)
           /\ MaxReports \in ContributingFacts(t)
           /\ \E e \in Events(t), f \in Events(t) :
                  e[1] # f[1] /\ RecordOf(e).with = RecordOf(f).with

\* ---- the statistics of a table, in the order of their discovery --------
\* The items of one kind ("agg" or "filter") of fact n.
ItemsOf(n, kind) ==
    IF kind = "agg" THEN deep_analysis[n].aggregations ELSE deep_analysis[n].filters

\* the field an item adds to, and the value it adds
FieldOf(item, kind) ==
    IF kind = "agg"
    THEN CASE item.function = "SUM" -> "sum_columns"
           [] item.function = "COUNT" -> "count_columns"
           [] item.function = "MAX" -> "max_columns"
           [] OTHER -> "none"
    ELSE IF item.type = "equality" THEN "common_equality_filters"
         ELSE IF HasDate(item.column) THEN "date_filters"
         ELSE IF IsNullCheck(item.type) THEN "null_checks"
         ELSE "none"

ValueOf(item, kind) ==
    IF kind = "agg" THEN Cut(Lower(item.expression), ExprShown) ELSE item.column

\* <<n, i>>: item i of fact n adds to the given field of table t
Discoveries(t, kind, field) ==
    {e \in UNION {{<<n, i>> : i \in 1..Len(ItemsOf(n, kind))} : n \in 1..Len(deep_analysis)} :
        /\ \E k \in 1..Len(deep_analysis[e[1]].tables) : deep_analysis[e[1]].tables[k][1] = t
        /\ FieldOf(ItemsOf(e[1], kind)[e[2]], kind) = field}

Earlier(e, f) == e[1] < f[1] \/ (e[1] = f[1] /\ e[2] < f[2])

Discovered(e, kind) == ValueOf(ItemsOf(e[1], kind)[e[2]], kind)

\* the discoveries that add a value not seen before
FirstSeen(t, kind, field) ==
    {e \in Discoveries(t, kind, field) :
        \A f \in Discoveries(t, kind, field) :
            Earlier(f, e) => Discovered(f, kind) # Discovered(e, kind)}

\* the first distinct values discovered, up to the cap
FirstDistinct(t, kind, field, cap) ==
    {Discovered(e, kind) :
        e \in {x \in FirstSeen(t, kind, field) :
                  Cardinality({f \in FirstSeen(t, kind, field) : Earlier(f, x)}) < cap}}

\* C17: cap-then-drop for the set-valued statistics: the elements kept for
\* sum_columns, count_columns, max_columns, common_equality_filters,
\* date_filters and null_checks of a table are the first distinct ones
\* discovered in fact-processing order, up to the cap; a later discovery
\* is never kept in place of an earlier one.
C17_KeepsFirstDiscovered ==
    bpc = "done" =>
        /\ \A t \in DOMAIN artifact.aggregation_patterns :
               /\ artifact.aggregation_patterns[t].sum_columns
                    = FirstDistinct(t, "agg", "sum_columns", TopColumns)
               /\ artifact.aggregation_patterns[t].count_columns
                    = FirstDistinct(t, "agg", "count_columns", TopColumns)
               /\ artifact.aggregation_patterns[t].max_columns
                    = FirstDistinct(t, "agg", "max_columns", TopColumns)
        /\ \A t \in DOMAIN artifact.filter_patterns :
               /\ artifact.filter_patterns[t].common_equality_filters
                    = FirstDistinct(t, "filter", "common_equality_filters", TopColumns)
               /\ artifact.filter_patterns[t].date_filters
                    = FirstDistinct(t, "filter", "date_filters", TopColumns)
               /\ artifact.filter_patterns[t].null_checks
                    = FirstDistinct(t, "filter", "null_checks", TopNullChecks)

QueriesBuilt == bpc \in {"aggregations", "filters", "done"}

\* the facts whose lower-cased name satisfies the rule of bucket n, in order
MatchingFacts(n) ==
    LET Matches(analysis) == PatternRule(n, LowerName(analysis.report_name))
    IN  SelectSeq(deep_analysis, Matches)

\* C18: classification into the 5 exemplar buckets is non-exclusive and
\* order-preserving: a bucket holds one exemplar for every report whose
\* lower-cased name satisfies the rule of the bucket, whatever other rules
\* the name satisfies, and for no other report, in fact-processing order;
\* the first exemplar of a bucket is the first matching report processed.
C18_BucketsHoldEveryMatchInOrder ==
    QueriesBuilt =>
        /\ DOMAIN artifact.common_queries = {PatternTypes[n] : n \in 1..Len(PatternTypes)}
        /\ \A n \in 1..Len(PatternTypes) :
               artifact.common_queries[PatternTypes[n]]
                 = [i \in 1..Len(MatchingFacts(n)) |-> ExemplarOf(MatchingFacts(n)[i])]

\* a report that is in two buckets, one of which holds an earlier report too
C18_Witness ==
    /\ QueriesBuilt
    /\ Len(deep_analysis) = 2
    /\ deep_analysis[1].report_name # deep_analysis[2].report_name
    /\ \E m, n \in 1..Len(PatternTypes) :
          /\ m # n
          /\ Len(artifact.common_queries[PatternTypes[m]]) = 1
          /\ Len(artifact.common_queries[PatternTypes[n]]) = 2
          /\ artifact.common_queries[PatternTypes[m]][1].report = deep_analysis[2].report_name
          /\ artifact.common_queries[PatternTypes[n]][2].report = deep_analysis[2].report_name
          /\ artifact.common_queries[PatternTypes[n]][1].report = deep_analysis[1].report_name

(***************************************************************************)
(* SQL analyzer (scripts/deep_analysis_reports.py, SQLAnalyzer).           *)
(*                                                                         *)
(* A query is given by what the regular expressions of the extractors      *)
(* capture from its text; the model does what the code does with the       *)
(* captures: case conversion, strip, split, the cuts and the list limits.  *)
(* Identifiers (report, table, alias, column and function names) are       *)
(* atoms; the free texts (clauses, conditions, expressions) are sequences  *)
(* of characters, so that len and slices are exact.                        *)
(***************************************************************************)
None == "None"

\* the limits of the extractors
ConditionKept == 200
ColumnsKept == 50
ExpressionKept == 100
NameKept == 30
AggExpressionKept == 100
FiltersKept == 20
GroupPartsKept == 10
OrderPartsKept == 5
FragmentKept == 50

\* ---- characters and texts ---------------------------------------------
LowerCase == <<"a", "b", "c", "d", "e", "f", "g", "h", "i", "j", "k", "l", "m", "n", "o", "p",
               "q", "r", "s", "t", "u", "v", "w", "x", "y", "z">>
UpperCase == <<"A", "B", "C", "D", "E", "F", "G", "H", "I", "J", "K", "L", "M", "N", "O", "P",
               "Q", "R", "S", "T", "U", "V", "W", "X", "Y", "Z">>
\* \w
WordChars ==
    {LowerCase[i] : i \in 1..Len(LowerCase)} \cup {UpperCase[i] : i \in 1..Len(UpperCase)}
      \cup {"0", "1", "2", "3", "4", "5", "6", "7", "8", "9", "_"}
Comma == ","
Open == "("
Close == ")"

IsWordChar(c) == c \in WordChars

\* str.lower()
LowerChar(c) ==
    IF \E i \in 1..Len(UpperCase) : UpperCase[i] = c
    THEN LowerCase[CHOOSE i \in 1..Len(UpperCase) : UpperCase[i] = c]
    ELSE c
str_lower(text) == [i \in 1..Len(text) |-> LowerChar(text[i])]

Minimum(S) == CHOOSE x \in S : \A y \in S : x <= y
Maximum(S) == CHOOSE x \in S : \A y \in S : x >= y

\* str.strip()
str_strip(text) ==
    LET inked == {i \in 1..Len(text) : text[i] # Blank}
    IN  IF inked = {} THEN <<>> ELSE SubSeq(text, Minimum(inked), Maximum(inked))

\* the pieces of text between the positions in points (the separators)
SplitAt(text, points) ==
    LET n == Cardinality(points)
        Nth(k) == CHOOSE p \in points : Cardinality({q \in points : q < p}) = k - 1
        First(k) == IF k = 1 THEN 1 ELSE Nth(k - 1) + 1
        Last(k) == IF k = n + 1 THEN Len(text) ELSE Nth(k) - 1
    IN  [k \in 1..(n + 1) |-> SubSeq(text, First(k), Last(k))]

\* str.split(',')
Commas(text) == {i \in 1..Len(text) : text[i] = Comma}

\* (?![^()]*\)) at the position after i fails to exclude i: going right
\* from i, a closing parenthesis comes before any other parenthesis
ClosesFirst(text, i) ==
    \E j \in (i + 1)..Len(text) :
        /\ text[j] = Close
        /\ \A k \in (i + 1)..(j - 1) : text[k] \notin {Open, Close}

\* the matches of ,(?![^()]*\))
SplitCommas(text) == {i \in Commas(text) : ~ClosesFirst(text, i)}

\* kw in text, for a text of characters
TextHas(text, kw) ==
    \E i \in 1..Len(text) :
        /\ i + Len(kw) - 1 <= Len(text)
        /\ SubSeq(text, i, i + Len(kw) - 1) = kw

Branch == <<"b", "r", "a", "n", "c", "h">>
Product == <<"p", "r", "o", "d", "u", "c", "t">>

\* ---- the extractors -----------------------------------------------------
\* A query, as captured:
\*   from_tables, join_tables  <<table, alias>> per match of FROM / JOIN
\*   joins                     [type, table, alias, condition] per match
\*   select_clause             <<text>> between SELECT and FROM, <<>> if none
\*   aggregations              [function, expression, alias] per match
\*   where_conditions          [column, type] per match, pattern by pattern
\*   group_by_clause, order_by_clause   <<text>>, <<>> if none
Range(seq) == {seq[i] : i \in 1..Len(seq)}

LowerAlias(alias) == IF alias = NoAlias THEN NoAlias ELSE LowerName(alias)

\* list(a_set) under the iteration order of the run
ListOf(a_set, order) ==
    LET Member(x) == x \in a_set
    IN  SelectSeq(order, Member)

\* the tables of the FROM clauses alone
extract_tables_from_only(query, order) ==
    LET tables == {<<LowerName(m[1]), LowerAlias(m[2])>> : m \in Range(query.from_tables)}
    IN  ListOf(tables, order)

extract_tables(query, order) ==
    LET tables == {<<LowerName(m[1]), LowerAlias(m[2])>> :
                      m \in Range(query.from_tables) \cup Range(query.join_tables)}
    IN  ListOf(tables, order)

\* the join records with the condition left uncut
extract_joins_uncut(query) ==
    [i \in 1..Len(query.joins) |->
        [type |-> str_strip(query.joins[i].type),
         table |-> LowerName(query.joins[i].table),
         alias |-> LowerAlias(query.joins[i].alias),
         condition |-> str_strip(query.joins[i].condition)]]

extract_joins(query) ==
    [i \in 1..Len(query.joins) |->
        [type |-> str_strip(query.joins[i].type),
         table |-> LowerName(query.joins[i].table),
         alias |-> LowerAlias(query.joins[i].alias),
         condition |-> Take(str_strip(query.joins[i].condition), ConditionKept)]]

\* as_match / col_match / part[:30] of a stripped, non-empty part
ColumnName(part) ==
    LET word == {i \in 1..Len(part) : IsWordChar(part[i])}
        other == {i \in 1..Len(part) : ~IsWordChar(part[i])}
    IN  IF IsWordChar(part[Len(part)])
        THEN SubSeq(part, IF other = {} THEN 1 ELSE Maximum(other) + 1, Len(part))
        ELSE IF word # {}
        THEN LET first == Minimum(word)
                 after == {i \in other : i > first}
             IN  SubSeq(part, first, Minimum(after) - 1)
        ELSE Take(part, NameKept)

\* for part in parts[:50]: the column records of the non-blank parts
ColumnsOf(parts) ==
    LET stripped == [k \in 1..Min(Len(parts), ColumnsKept) |-> str_strip(parts[k])]
        NonEmpty(part) == part # <<>>
        kept == SelectSeq(stripped, NonEmpty)
    IN  [k \in 1..Len(kept) |->
            [expression |-> Take(kept[k], ExpressionKept),
             name |-> str_lower(ColumnName(kept[k]))]]

extract_select_columns(query) ==
    IF query.select_clause = <<>> THEN <<>>
    ELSE ColumnsOf(SplitAt(query.select_clause[1], SplitCommas(query.select_clause[1])))

extract_aggregations(query) ==
    [i \in 1..Len(query.aggregations) |->
        [function |-> UpperName(query.aggregations[i].function),
         expression |-> Take(query.aggregations[i].expression, AggExpressionKept),
         alias |-> LowerAlias(query.aggregations[i].alias)]]

extract_where_conditions(query) ==
    Take([i \in 1..Len(query.where_conditions) |->
             [column |-> LowerName(query.where_conditions[i].column),
              type |-> query.where_conditions[i].type]],
         FiltersKept)

\* [p[:50] for p in parts[:limit]] of the stripped pieces of a clause
Fragments(clause, limit) ==
    IF clause = <<>> THEN <<>>
    ELSE LET stripped == str_strip(clause[1])
             parts == SplitAt(stripped, Commas(stripped))
         IN  [k \in 1..Min(Len(parts), limit) |-> Take(str_strip(parts[k]), FragmentKept)]

extract_group_by(query) == Fragments(query.group_by_clause, GroupPartsKept)

extract_order_by(query) == Fragments(query.order_by_clause, OrderPartsKept)

Opt(condition, label) == IF condition THEN <<label>> ELSE <<>>

\* infer_business_logic, for a report name that is a string
infer_business_logic(report_name, result) ==
    LET report_lower == LowerName(report_name)
        type == IF NameHas(report_lower, "collection") THEN <<"Type: Collections/Repayment Report">>
                ELSE IF NameHas(report_lower, "disbursement") THEN <<"Type: Disbursement Report">>
                ELSE IF NameHas(report_lower, "portfolio") \/ NameHas(report_lower, "outstanding")
                THEN <<"Type: Portfolio/Outstanding Report">>
                ELSE IF NameHas(report_lower, "par") \/ NameHas(report_lower, "npa")
                THEN <<"Type: Asset Quality Report">>
                ELSE IF NameHas(report_lower, "customer") THEN <<"Type: Customer Report">>
                ELSE IF NameHas(report_lower, "loan") THEN <<"Type: Loan Report">>
                ELSE <<>>
    IN  type
        \o Opt(\E i \in 1..Len(result.aggregations) :
                   NameHas(LowerName(result.aggregations[i].function), "sum"),
               "Calculation: Aggregating amounts (SUM)")
        \o Opt(\E i \in 1..Len(result.aggregations) :
                   NameHas(LowerName(result.aggregations[i].function), "count"),
               "Calculation: Counting records")
        \o Opt(\E i \in 1..Len(result.filters) : NameHas(result.filters[i].column, "date"),
               "Filter: Date-based filtering")
        \o Opt(\E i \in 1..Len(result.group_by) : TextHas(str_lower(result.group_by[i]), Branch),
               "Grouping: Branch-wise analysis")
        \o Opt(\E i \in 1..Len(result.group_by) : TextHas(str_lower(result.group_by[i]), Product),
               "Grouping: Product-wise analysis")
        \o Opt(\E i \in 1..Len(result.tables) : NameHas(result.tables[i][1], "customer"),
               "Scope: Customer-level data")
        \o Opt(\E i \in 1..Len(result.tables) :
                   NameHas(result.tables[i][1], "account") \/ NameHas(result.tables[i][1], "loan"),
               "Scope: Account/Loan-level data")

\* report_name.lower() on a NULL report name raises AttributeError
AnalysisRaises(report_name) == report_name = None

\* analyze_query, when it returns
analyze_query(report_name, query, order) ==
    LET result == [report_name |-> report_name,
                   tables |-> extract_tables(query, order),
                   joins |-> extract_joins(query),
                   columns |-> extract_select_columns(query),
                   aggregations |-> extract_aggregations(query),
                   filters |-> extract_where_conditions(query),
                   group_by |-> extract_group_by(query),
                   order_by |-> extract_order_by(query)]
    IN  [report_name |-> result.report_name,
         tables |-> result.tables,
         joins |-> result.joins,
         columns |-> result.columns,
         aggregations |-> result.aggregations,
         filters |-> result.filters,
         group_by |-> result.group_by,
         order_by |-> result.order_by,
         business_logic |-> infer_business_logic(report_name, result)]

\* ---- the queries analysed -----------------------------------------------
\* n times the character c
Repeated(c, n) == [i \in 1..n |-> c]

\* "a,a,...,a": n one-character pieces
Listed(n) == [i \in 1..(2 * n - 1) |-> IF i % 2 = 1 THEN "a" ELSE Comma]

\* group 1 of the JOIN pattern starts at the white space before JOIN
JoinType == <<" ", "J", "O", "I", "N">>

BaseQuery ==
    [from_tables |-> << <<"Loan_Accounts", "LA">> >>,
     join_tables |-> <<>>,
     joins |-> <<>>,
     select_clause |-> << <<"a">> >>,
     aggregations |-> <<>>,
     where_conditions |-> <<>>,
     group_by_clause |-> <<>>,
     order_by_clause |-> <<>>]

\* SELECT clauses: every text of up to MaxClauseLen characters (SELECT\s+
\* and \s+FROM take the white space at both ends), and one of more
\* columns than are kept
ClauseChars == {"a", Comma, Open, Close, Blank}
MaxClauseLen == 5

SelectClauses ==
    {c \in SeqsUpTo(ClauseChars, MaxClauseLen) :
        c # <<>> => (c[1] # Blank /\ c[Len(c)] # Blank)}
      \cup {Listed(ColumnsKept + 1)}

SelectQueries ==
    {[BaseQuery EXCEPT !.select_clause = <<c>>] : c \in SelectClauses}
      \cup {[BaseQuery EXCEPT !.select_clause = <<>>]}

\* texts around the cuts: a long word, with white space around it or after it
LongLengths == {FragmentKept, FragmentKept + 1, ExpressionKept, ExpressionKept + 1,
                ConditionKept, ConditionKept + 1}

LongQueries ==
    {[BaseQuery EXCEPT
        !.join_tables = << <<"customer", NoAlias>> >>,
        !.joins = <<[type |-> JoinType, table |-> "customer", alias |-> NoAlias,
                     condition |-> Repeated("a", n) \o <<Blank>>]>>,
        !.select_clause = <<Repeated("B", n) \o <<Comma, Blank, "a", Open, "B", Close>>>>,
        !.aggregations = <<[function |-> "sum", expression |-> Repeated("a", n),
                            alias |-> "LA"]>>,
        !.where_conditions = <<[column |-> "Value_Date", type |-> "between"],
                               [column |-> "Status", type |-> "equality"]>>,
        !.group_by_clause = <<<<Blank>> \o Repeated("a", n) \o <<Comma, Blank, "B">>>>,
        !.order_by_clause = <<Repeated("a", n)>>] : n \in LongLengths}
      \cup {[BaseQuery EXCEPT
               !.where_conditions = [i \in 1..(FiltersKept + 1) |->
                                        [column |-> "Status", type |-> "equality"]],
               !.group_by_clause = <<Listed(GroupPartsKept + 1)>>,
               !.order_by_clause = <<Listed(OrderPartsKept + 1)>>]}

\* the same table under an alias and without, and a second table
MentionQueries ==
    {[BaseQuery EXCEPT !.from_tables = f, !.join_tables = j] :
        f \in {<< <<"Loan_Accounts", "LA">> >>, << <<"customer", NoAlias>> >>},
        j \in {<<>>, << <<"customer", NoAlias>> >>,
               << <<"loan_accounts", "la">>, <<"customer", NoAlias>> >>}}

\* SELECT b.branch_name, SUM(r.principal_magnitude) AS total
\* FROM repayments r JOIN branch_master b ON r.branch_id=b.id
\* GROUP BY b.branch_name
ExampleCondition ==
    <<"r", ".", "b", "r", "a", "n", "c", "h",
      "_", "i", "d", "=", "b", ".", "i", "d">>
ExampleAggregation ==
    <<"S", "U", "M", "(", "r", ".", "p", "r", "i", "n", "c", "i",
      "p", "a", "l", "_", "m", "a", "g", "n", "i", "t", "u", "d",
      "e", ")", " ", "A", "S", " ", "t", "o", "t", "a", "l">>
ExampleGroupBy ==
    <<"b", ".", "b", "r", "a", "n", "c", "h", "_", "n", "a", "m", "e">>
ExampleQuery ==
    [from_tables |-> << <<"repayments", "r">> >>,
     join_tables |-> << <<"branch_master", "b">> >>,
     joins |-> <<[type |-> JoinType, table |-> "branch_master", alias |-> "b",
                  condition |-> ExampleCondition \o <<Blank>>]>>,
     select_clause |-> <<ExampleGroupBy \o <<Comma, Blank>> \o ExampleAggregation>>,
     aggregations |-> <<[function |-> "SUM", expression |-> ExampleAggregation,
                         alias |-> "total"]>>,
     where_conditions |-> <<>>,
     group_by_clause |-> <<ExampleGroupBy>>,
     order_by_clause |-> <<>>]

Queries == SelectQueries \cup LongQueries \cup MentionQueries \cup {ExampleQuery}

AnalyzedReports ==
    {[report_name |-> "Branch Collection Summary", query |-> q] : q \in Queries}

\* the orders in which a run can iterate over a set of table mentions
MentionOrders ==
    {<< <<"loan_accounts", "la">>, <<"customer", NoAlias>>,
        <<"repayments", "r">>, <<"branch_master", "b">> >>,
     << <<"customer", NoAlias>>, <<"loan_accounts", "la">>,
        <<"branch_master", "b">>, <<"repayments", "r">> >>}

\* analyze_query is called twice in one run and once in another run
CallRuns == <<1, 1, 2>>
Runs == Range(CallRuns)

AnalyzeInit ==
    /\ report \in AnalyzedReports
    /\ hash_seed \in [Runs -> MentionOrders]
    /\ fact = <<>>
    /\ apc = 1
    /\ RepairIdle
    /\ KBIdle
    /\ PatternIdle
    /\ BuildIdle
    /\ MineIdle
    /\ ProviderIdle
    /\ RebuildIdle
    /\ RequestIdle

\* analysis = analyzer.analyze_query(report['report_name'], report['query'])
AnalyzeCall ==
    /\ apc <= Len(CallRuns)
    /\ fact' = Append(fact, analyze_query(report.report_name, report.query,
                                          hash_seed[CallRuns[apc]]))
    /\ apc' = apc + 1
    /\ UNCHANGED <<report, hash_seed, repairVars, kbVars, patternVars, buildVars,
                   mineVars, providerVars, rebuildVars, requestVars>>

AnalyzeNext == AnalyzeCall

SpecAnalyze == AnalyzeInit /\ [][AnalyzeNext]_vars

AllCallsMade == apc > Len(CallRuns)

\* C12: analysis is deterministic: analyze_query applied twice to the same
\* report name and SQL text, in the same run or in two runs, yields
\* identical fact records, the order of the tables field included.
C12_AnalysisDeterministic ==
    AllCallsMade => (fact[1] = fact[2] /\ fact[1] = fact[3])

\* C19 (as claimed): every join condition has at most 100 characters, every
\* column expression at most 100, every group_by / order_by fragment at
\* most 50.
C19_CapsAsClaimed ==
    apc > 1 =>
        /\ \A i \in 1..Len(fact[1].joins) : Len(fact[1].joins[i].condition) <= ExpressionKept
        /\ \A i \in 1..Len(fact[1].columns) : Len(fact[1].columns[i].expression) <= ExpressionKept
        /\ \A i \in 1..Len(fact[1].group_by) : Len(fact[1].group_by[i]) <= FragmentKept
        /\ \A i \in 1..Len(fact[1].order_by) : Len(fact[1].order_by[i]) <= FragmentKept

\* C19 (amended): every join condition has at most 200 characters, every
\* column expression at most 100, every group_by / order_by fragment at
\* most 50.
C19_CapsOfTheCode ==
    apc > 1 =>
        /\ \A i \in 1..Len(fact[1].joins) : Len(fact[1].joins[i].condition) <= ConditionKept
        /\ \A i \in 1..Len(fact[1].columns) : Len(fact[1].columns[i].expression) <= ExpressionKept
        /\ \A i \in 1..Len(fact[1].group_by) : Len(fact[1].group_by[i]) <= FragmentKept
        /\ \A i \in 1..Len(fact[1].order_by) : Len(fact[1].order_by[i]) <= FragmentKept

\* a query whose join condition, first column and first group_by and
\* order_by pieces are all longer than their cuts, analysed: each capture
\* is kept at exactly the length of its cut
C19_Witness ==
    /\ apc > 1
    /\ Len(report.query.joins) = 1
    /\ Len(str_strip(report.query.joins[1].condition)) > ConditionKept
    /\ Len(fact[1].joins[1].condition) = ConditionKept
    /\ Len(fact[1].columns[1].expression) = ExpressionKept
    /\ Len(fact[1].group_by[1]) = FragmentKept
    /\ Len(fact[1].order_by[1]) = FragmentKept

\* nesting depth of position i: parentheses opened and not closed before i
Depth(text, i) ==
    Cardinality({k \in 1..(i - 1) : text[k] = Open})
      - Cardinality({k \in 1..(i - 1) : text[k] = Close})

Balanced(text) ==
    /\ \A i \in 1..Len(text) : Depth(text, i + 1) >= 0
    /\ Depth(text, Len(text) + 1) = 0

TopLevelCommas(text) == {i \in Commas(text) : Depth(text, i) = 0}

\* C20: column extraction splits the SELECT clause only at top-level
\* commas: with balanced parentheses, a comma nested at any depth never
\* starts a new column; at most 50 columns are returned.
C20_SplitsAtTopLevelCommasOnly ==
    (apc > 1 /\ report.query.select_clause # <<>>
       /\ Balanced(report.query.select_clause[1])) =>
        /\ fact[1].columns =
              ColumnsOf(SplitAt(report.query.select_clause[1],
                                TopLevelCommas(report.query.select_clause[1])))
        /\ Len(fact[1].columns) <= ColumnsKept

\* C25: the analyzer applied to 'Branch Collection Summary' and the example
\* query yields the tables {(repayments, r), (branch_master, b)}, one join
\* (table branch_master, condition containing r.branch_id=b.id), one
\* aggregation (function SUM, alias total), group_by ['b.branch_name'] and
\* the tags 'Type: Collections/Repayment Report' and 'Grouping: Branch-wise
\* analysis'.
C25_ExampleAnalysis ==
    (apc > 1 /\ report.report_name = "Branch Collection Summary"
       /\ report.query = ExampleQuery) =>
        /\ Len(fact[1].tables) = 2
        /\ Range(fact[1].tables) = {<<"repayments", "r">>, <<"branch_master", "b">>}
        /\ Len(fact[1].joins) = 1
        /\ fact[1].joins[1].table = "branch_master"
        /\ TextHas(fact[1].joins[1].condition, ExampleCondition)
        /\ Len(fact[1].aggregations) = 1
        /\ fact[1].aggregations[1].function = "SUM"
        /\ fact[1].aggregations[1].alias = "total"
        /\ fact[1].group_by = <<ExampleGroupBy>>
        /\ "Type: Collections/Repayment Report" \in Range(fact[1].business_logic)
        /\ "Grouping: Branch-wise analysis" \in Range(fact[1].business_logic)

\* the example analysed in every call of the runs
C25_Witness ==
    /\ AllCallsMade
    /\ report.report_name = "Branch Collection Summary"
    /\ report.query = ExampleQuery
    /\ Len(fact[3].tables) = 2
    /\ Len(fact[3].business_logic) = 3

(***************************************************************************)
(* Report mining batch (deep_analyze_all_reports).                         *)
(*                                                                         *)
(* The rows come from bi.report_master WHERE query IS NOT NULL AND         *)
(* query != '': every row has a query text; report_name can be NULL.       *)
(***************************************************************************)
MinedReports ==
    {[report_name |-> "Branch Collection Summary", query |-> BaseQuery],
     [report_name |-> "Portfolio Outstanding",
      query |-> [BaseQuery EXCEPT !.join_tables = << <<"customer", NoAlias>> >>]],
     [report_name |-> None, query |-> BaseQuery]}

MaxBatch == 3

\* the body of the for loop: try: analysis = analyze_query(...);
\* detailed_analysis.append(analysis)  except Exception: continue
TryAnalyzeKeepsFailed(analyses, row, order) ==
    Append(analyses,
           IF AnalysisRaises(row.report_name) THEN [report_name |-> row.report_name]
           ELSE analyze_query(row.report_name, row.query, order))

TryAnalyze(analyses, row, order) ==
    IF AnalysisRaises(row.report_name) THEN analyses
    ELSE Append(analyses, analyze_query(row.report_name, row.query, order))

MineInit ==
    /\ reports \in SeqsUpTo(MinedReports, MaxBatch)
    /\ report_index = 1
    /\ detailed_analysis = <<>>
    /\ saved_analysis = <<>>
    /\ mpc = "loop"
    /\ hash_seed \in [{1} -> MentionOrders]
    /\ report = <<>>
    /\ fact = <<>>
    /\ apc = 0
    /\ RepairIdle
    /\ KBIdle
    /\ PatternIdle
    /\ BuildIdle
    /\ ProviderIdle
    /\ RebuildIdle
    /\ RequestIdle

\* for i, report in enumerate(reports, 1): one iteration
MineReport ==
    /\ mpc = "loop"
    /\ report_index <= Len(reports)
    /\ detailed_analysis' = TryAnalyze(detailed_analysis, reports[report_index], hash_seed[1])
    /\ report_index' = report_index + 1
    /\ UNCHANGED <<reports, saved_analysis, mpc, analyzeVars, repairVars, kbVars,
                   patternVars, buildVars, providerVars, rebuildVars, requestVars>>

\* json.dump(detailed_analysis, f, ...)
MineSave ==
    /\ mpc = "loop"
    /\ report_index > Len(reports)
    /\ saved_analysis' = <<detailed_analysis>>
    /\ mpc' = "done"
    /\ UNCHANGED <<reports, report_index, detailed_analysis, analyzeVars, repairVars,
                   kbVars, patternVars, buildVars, providerVars, rebuildVars, requestVars>>

MineNext == MineReport \/ MineSave

\* the script runs to its end: no step of it waits for anything
SpecMine == MineInit /\ [][MineNext]_vars /\ WF_vars(MineNext)

\* the rows whose analysis returns, in the order of reports
Analysable(rows) ==
    LET Returns(row) == ~AnalysisRaises(row.report_name)
    IN  SelectSeq(rows, Returns)

\* C11: a report whose analysis raises is skipped and the loop continues:
\* the saved list holds exactly one record for every report whose analysis
\* did not raise, in the original order, and the run reaches the save step
\* whatever subset of the reports fails.
C11_BatchSkipsFailures ==
    /\ [](mpc = "done" =>
            saved_analysis =
              << [i \in 1..Len(Analysable(reports)) |->
                     analyze_query(Analysable(reports)[i].report_name,
                                   Analysable(reports)[i].query, hash_seed[1])] >>)
    /\ <>(mpc = "done")

\* a batch in which a failing report stands between two that are analysed, saved
C11_Witness ==
    /\ mpc = "done"
    /\ Len(reports) = 3
    /\ AnalysisRaises(reports[2].report_name)
    /\ ~AnalysisRaises(reports[1].report_name)
    /\ ~AnalysisRaises(reports[3].report_name)
    /\ Len(saved_analysis[1]) = 2

(***************************************************************************)
(* Knowledge context provider: the methods.                                *)
(*                                                                         *)
(* A provider is constructed (its knowledge loaded from the artifact       *)
(* file) and then one of its methods is called.  A returned text is the    *)
(* sequence of the pieces it is joined from; the empty text is <<>>.  The  *)
(* question argument is <<>> for None and <<q>> for a string with the      *)
(* words q.                                                                *)
(***************************************************************************)
ProviderWords == {"Product", "disbursement", "customer", "loan", "TOP", "branch", "collection"}

LowerWord(w) ==
    CASE w = "Product" -> "product"
      [] w = "TOP" -> "top"
      [] w = "Top" -> "top"
      [] w = "Show" -> "show"
      [] OTHER -> w

\* question.lower()
LowerQuestion(q) == {LowerWord(w) : w \in q}

ProviderQuestions ==
    {<<>>} \cup {<<q>> : q \in {x \in SUBSET ProviderWords : Cardinality(x) <= MaxWords}}

TableNames == {"Loan_Accounts", "loan_accounts", "LOAN_ACCOUNTS", "customer", "Branch_Master"}

\* a join condition of three chunks (150 characters)
LongCondition == <<"la.tenant_code = c.tenant_code AND ", "la.customer_id = c.customer_id AND ", "la.is_closed = 0">>

\* artifacts a file can hold
TableKnowledge ==
    [keys |-> {"table_relationships", "aggregation_patterns", "filter_patterns", "common_queries"},
     table_relationships |->
        [t \in {"loan_accounts"} |->
            [joins_with |-> <<"customer", "branch_master", "repayments", "account_profiles",
                              "account_holders", "customers">>,
             common_join_conditions |-> <<[with |-> "customer", condition |-> LongCondition]>>]],
     aggregation_patterns |->
        [t \in {"loan_accounts"} |->
            [sum_columns |-> <<"sum(x1)", "sum(x2)", "sum(x3)", "sum(x4)">>]],
     filter_patterns |->
        [t \in {"loan_accounts", "customer"} |->
            [common_equality_filters |-> IF t = "customer" THEN <<>> ELSE <<"status", "tenant_code">>]],
     common_queries |->
        [b \in BucketNames |-> IF b = "product_disbursement" THEN <<Exemplar1>> ELSE <<>>]]

QueriesKnowledge ==
    [keys |-> {"common_queries"},
     common_queries |->
        [b \in BucketNames |-> IF b = "customer_loan_amount" THEN <<Exemplar2, Exemplar1>> ELSE <<>>]]

RulesKnowledge ==
    [keys |-> {"business_rules"},
     business_rules |-> [r \in {"disbursement_calculation"} |-> "rule"]]

OtherKnowledge == [keys |-> {"metadata"}]

\* the top-level keys the builder writes
TopLevelKeys == {"table_relationships", "aggregation_patterns", "filter_patterns",
                 "common_queries", "business_rules"}

\* an artifact with every key
FullKnowledge ==
    [f \in TopLevelKeys \cup {"keys"} |->
        IF f = "keys" THEN TopLevelKeys
        ELSE IF f = "business_rules" THEN [r \in {"disbursement_calculation"} |-> "rule"]
        ELSE TableKnowledge[f]]

\* the artifact with only some of its keys (written by an older builder)
WithKeys(k, kept) == [f \in kept \cup {"keys"} |-> IF f = "keys" THEN kept ELSE k[f]]

LoadedArtifacts ==
    {TableKnowledge, QueriesKnowledge, RulesKnowledge, OtherKnowledge}
      \cup {WithKeys(FullKnowledge, kept) : kept \in SUBSET TopLevelKeys}

\* what json.load returns for a file
FileContents(file) ==
    CASE file = "loaded" -> LoadedArtifacts
      [] OTHER -> {[keys |-> {}]}

\* variant: an artifact is read only when it has every key
SectionOfComplete(k, key) == IF TopLevelKeys \subseteq k.keys THEN k[key] ELSE EmptyDict

\* self.knowledge.get(key, {})
Section(k, key) == IF key \in k.keys THEN k[key] ELSE EmptyDict

JoinsShown == 5
SumsShown == 3
FiltersShown == 3

Part(label, items, text) == [part |-> label, items |-> items, text |-> text]

NameAsWritten(name) == name

\* table_lower = table_name.lower()
NormalizedName(name) == LowerName(name)

\* get_table_context: the parts of the context, joined with " | "
get_table_context(k, name) ==
    IF k.keys = {} THEN <<>>
    ELSE LET table_lower == NormalizedName(name)
             relationships == Section(k, "table_relationships")
             agg_patterns == Section(k, "aggregation_patterns")
             filter_patterns == Section(k, "filter_patterns")
             joins ==
                 IF table_lower \in DOMAIN relationships
                    /\ relationships[table_lower].joins_with # <<>>
                 THEN LET entry == relationships[table_lower]
                          conditions == entry.common_join_conditions
                      IN  <<Part("Commonly joins with", Take(entry.joins_with, JoinsShown), <<>>)>>
                          \o (IF conditions # <<>>
                              THEN <<Part("Example: JOIN", <<conditions[1].with>>,
                                          Cut(conditions[1].condition, ConditionShown))>>
                              ELSE <<>>)
                 ELSE <<>>
             sums ==
                 IF table_lower \in DOMAIN agg_patterns
                    /\ agg_patterns[table_lower].sum_columns # <<>>
                 THEN <<Part("Common SUM", Take(agg_patterns[table_lower].sum_columns, SumsShown), <<>>)>>
                 ELSE <<>>
             filters ==
                 IF table_lower \in DOMAIN filter_patterns
                    /\ filter_patterns[table_lower].common_equality_filters # <<>>
                 THEN <<Part("Common filters",
                             Take(filter_patterns[table_lower].common_equality_filters, FiltersShown),
                             <<>>)>>
                 ELSE <<>>
         IN  joins \o sums \o filters

\* the lines of the fixed block
critical_rules ==
    <<"CRITICAL RULES:", "1. Customer->Loan", "2. Product->Disbursement", "3. Amounts",
      "4. Composite Keys", "5. Active records">>

get_business_rules_context_FromArtifact(k) ==
    IF "business_rules" \in k.keys THEN critical_rules ELSE <<>>

\* get_business_rules_context: the lines, joined with "\n"
get_business_rules_context(k) ==
    IF k.keys = {} THEN <<>> ELSE critical_rules

Enhancement(kind, lines, found) == [kind |-> kind, lines |-> lines, pattern |-> found]

Guidance1 == <<"GUIDANCE: Use loan_od_disbursements JOIN account_profiles">>
Guidance2 == <<"GUIDANCE: Use 3-table join">>

\* enhance_question: the question and the enhancements that follow it
\* (joined with "\n" after a separating "\n\n")
enhance_question(k, q) ==
    IF q = <<>> \/ q = <<{}>>
    THEN [question |-> {}, enhancements |-> <<>>]
    ELSE LET lower == LowerQuestion(q[1])
             rules_context == get_business_rules_context(k)
             found == get_query_pattern(k, lower)
             enhancements ==
                 (IF rules_context # <<>>
                  THEN <<Enhancement("rules", rules_context, NoPattern)>> ELSE <<>>)
                 \o (IF ~found.none
                     THEN <<Enhancement("pattern", <<"Similar Production Pattern: ">>, found)>>
                     ELSE <<>>)
                 \o (IF Has(lower, "product") /\ Has(lower, "disbursement")
                     THEN <<Enhancement("guidance", Guidance1, NoPattern)>> ELSE <<>>)
                 \o (IF Has(lower, "customer") /\ (Has(lower, "top") \/ Has(lower, "loan"))
                     THEN <<Enhancement("guidance", Guidance2, NoPattern)>> ELSE <<>>)
         IN  [question |-> q[1], enhancements |-> enhancements]

ProviderInit ==
    /\ artifact_file \in FileStates
    /\ kb_instance = 0
    /\ heap = <<>>
    /\ tpc = <<>>
    /\ tself = <<>>
    /\ tret = <<>>
    /\ PatternIdle
    /\ question \in ProviderQuestions
    /\ table_name \in TableNames
    /\ context = <<>>
    /\ vpc = "new"
    /\ RepairIdle
    /\ BuildIdle
    /\ MineIdle
    /\ AnalyzeIdle
    /\ RebuildIdle
    /\ RequestIdle

\* AIKnowledgeBase(): __init__ and load_knowledge
ProviderLoad ==
    /\ vpc = "new"
    /\ IF LoadedKnowledge(artifact_file) = "raise"
       THEN /\ vpc' = "raised"
            /\ UNCHANGED knowledge
       ELSE /\ knowledge' \in FileContents(artifact_file)
            /\ vpc' = "ready"
    /\ UNCHANGED <<question_lower, pattern, qpc, question, table_name, context,
                   repairVars, kbVars, buildVars, mineVars, analyzeVars, rebuildVars, requestVars>>

ProviderReturn(value, at) ==
    /\ vpc = "ready"
    /\ context' = value
    /\ vpc' = at
    /\ UNCHANGED <<patternVars, question, table_name,
                   repairVars, kbVars, buildVars, mineVars, analyzeVars, rebuildVars, requestVars>>

GetTableContext == ProviderReturn(get_table_context(knowledge, table_name), "table")

GetBusinessRulesContext == ProviderReturn(get_business_rules_context(knowledge), "rules")

ProviderGetQueryPattern ==
    /\ question # <<>>
    /\ ProviderReturn(get_query_pattern(knowledge, LowerQuestion(question[1])), "pattern")

EnhanceQuestion == ProviderReturn(enhance_question(knowledge, question), "enhanced")

ProviderNext ==
    \/ ProviderLoad
    \/ GetTableContext
    \/ GetBusinessRulesContext
    \/ ProviderGetQueryPattern
    \/ EnhanceQuestion

SpecProvider == ProviderInit /\ [][ProviderNext]_vars

\* the keys of the three mappings get_table_context reads
KnownTables(k) ==
    DOMAIN Section(k, "table_relationships") \cup DOMAIN Section(k, "aggregation_patterns")
        \cup DOMAIN Section(k, "filter_patterns")

\* C23: get_table_context looks the table up case-insensitively and
\* returns the empty string for an unknown table: two names that differ
\* only in letter case give the same result, and a name that is in none of
\* the three mappings gives ''.
C23_TableLookupIgnoresCase ==
    vpc = "table" =>
        /\ \A other \in TableNames :
               LowerName(other) = LowerName(table_name) =>
                   context = get_table_context(knowledge, other)
        /\ LowerName(table_name) \notin KnownTables(knowledge) => context = <<>>

\* a table written in upper case, found in the artifact
C23_Witness ==
    /\ vpc = "table"
    /\ table_name = "LOAN_ACCOUNTS"
    /\ Len(context) = 4

\* the artifact with every missing key present and empty
Completed(k) ==
    [f \in TopLevelKeys \cup {"keys"} |->
        IF f = "keys" THEN TopLevelKeys
        ELSE IF f \in k.keys THEN k[f]
        ELSE IF f = "common_queries" THEN [b \in BucketNames |-> <<>>]
        ELSE EmptyDict]

C15_AbsentArtifactGivesEmptyContext ==
    artifact_file = "absent" =>
        /\ vpc = "table" => context = <<>>
        /\ vpc = "pattern" => context = NoPattern
        /\ vpc = "rules" => context = <<>>
        /\ (vpc = "enhanced" /\ question # <<>>) =>
               context = [question |-> question[1], enhancements |-> <<>>]

HasRulesBlock(result) ==
    \E i \in 1..Len(result.enhancements) :
        result.enhancements[i] = Enhancement("rules", critical_rules, NoPattern)

NonEmptyQuestion == question # <<>> /\ question # <<{}>>

\* C16 (as stated): for every non-empty question the result is the question
\* followed by enrichment that contains the CRITICAL RULES block, whatever
\* the loaded artifact contains, also when it is empty.
C16_RulesBlockAlways ==
    (vpc = "enhanced" /\ NonEmptyQuestion) =>
        /\ context.question = question[1]
        /\ HasRulesBlock(context)

\* C16 (amended): for every non-empty question the result is the question
\* followed by the enrichment; the CRITICAL RULES block is its first piece
\* whenever the loaded artifact is not empty, whatever it contains and
\* whether or not an exemplar matched, and is left out when the artifact
\* is absent or empty.
C16_RulesBlockWhenKnowledgeLoaded ==
    (vpc = "enhanced" /\ NonEmptyQuestion) =>
        /\ context.question = question[1]
        /\ knowledge.keys # {} =>
              /\ context.enhancements # <<>>
              /\ context.enhancements[1] = Enhancement("rules", critical_rules, NoPattern)
        /\ knowledge.keys = {} => ~HasRulesBlock(context)

\* a question enhanced from an artifact without a business_rules section:
\* the block is there, and an exemplar matched as well
C16_Witness ==
    /\ vpc = "enhanced"
    /\ NonEmptyQuestion
    /\ "business_rules" \notin knowledge.keys
    /\ HasRulesBlock(context)
    /\ \E i \in 1..Len(context.enhancements) : context.enhancements[i].kind = "pattern"

(***************************************************************************)
(* Rebuild of the artifact file while providers load it.                   *)
(*                                                                         *)
(* The builder saves with open(path, 'w') and json.dump: the open          *)
(* truncates the file in place, the document then reaches the file chunk   *)
(* by chunk as the buffer is flushed, the last chunk at the close.  A      *)
(* provider process (one per loader) runs load_knowledge at any moment:    *)
(* os.path.exists, then open and json.load of what the file holds.         *)
(***************************************************************************)
MaxChunks == 3
NumLoaders == 2
Loaders == 1..NumLoaders

\* the serialised documents: the previous artifact and the one being built
Document(version) == [i \in 1..MaxChunks |-> <<version, i>>]
OldDocument == Document("old")
NewDocument == Document("new")

NoFile == [exists |-> FALSE, content |-> <<>>]
File(content) == [exists |-> TRUE, content |-> content]

\* json.load(f) on the content of the file: the document, or JSONDecodeError
\* for an empty or incomplete text
json_load(content) ==
    IF content \in {OldDocument, NewDocument}
    THEN [outcome |-> "loaded", document |-> content]
    ELSE [outcome |-> "JSONDecodeError", document |-> content]

RebuildInit ==
    /\ disk \in {NoFile, File(OldDocument)}
    /\ wpc = "open"
    /\ observed = [l \in Loaders |-> <<>>]
    /\ opc = [l \in Loaders |-> "exists"]
    /\ RepairIdle
    /\ KBIdle
    /\ PatternIdle
    /\ BuildIdle
    /\ MineIdle
    /\ AnalyzeIdle
    /\ ProviderIdle
    /\ RequestIdle

\* with open('ai_comprehensive_knowledge.json', 'w', encoding='utf-8') as f
SaveOpen ==
    /\ wpc = "open"
    /\ disk' = File(<<>>)
    /\ wpc' = "dump"
    /\ UNCHANGED <<observed, opc, repairVars, kbVars, patternVars, buildVars, mineVars,
                   analyzeVars, providerVars, requestVars>>

\* json.dump(knowledge, f, ...): the next part of the text reaches the file
SaveDump ==
    /\ wpc = "dump"
    /\ Len(disk.content) < MaxChunks
    /\ disk' = File(Append(disk.content, NewDocument[Len(disk.content) + 1]))
    /\ wpc' = IF Len(disk.content) + 1 = MaxChunks THEN "done" ELSE "dump"
    /\ UNCHANGED <<observed, opc, repairVars, kbVars, patternVars, buildVars, mineVars,
                   analyzeVars, providerVars, requestVars>>

\* load_knowledge: if os.path.exists(knowledge_path) ... else self.knowledge = {}
LoadExists(l) ==
    /\ opc[l] = "exists"
    /\ IF disk.exists
       THEN /\ opc' = [opc EXCEPT ![l] = "load"]
            /\ UNCHANGED observed
       ELSE /\ opc' = [opc EXCEPT ![l] = "done"]
            /\ observed' = [observed EXCEPT ![l] = <<[outcome |-> "no file", document |-> <<>>]>>]
    /\ UNCHANGED <<disk, wpc, repairVars, kbVars, patternVars, buildVars, mineVars,
                   analyzeVars, providerVars, requestVars>>

\* load_knowledge: with open(knowledge_path, 'r') as f: self.knowledge = json.load(f)
LoadRead(l) ==
    /\ opc[l] = "load"
    /\ observed' = [observed EXCEPT ![l] = <<json_load(disk.content)>>]
    /\ opc' = [opc EXCEPT ![l] = "done"]
    /\ UNCHANGED <<disk, wpc, repairVars, kbVars, patternVars, buildVars, mineVars,
                   analyzeVars, providerVars, requestVars>>

RebuildNext ==
    \/ SaveOpen
    \/ SaveDump
    \/ \E l \in Loaders : LoadExists(l) \/ LoadRead(l)

SpecRebuild == RebuildInit /\ [][RebuildNext]_vars

\* C21: the artifact is replaced atomically: a provider that loads the file
\* while a rebuild writes it gets the complete previous artifact or the
\* complete new one, never an empty or partly written document.
C21_LoadSeesWholeArtifact ==
    \A l \in Loaders :
        (opc[l] = "done" /\ observed[l][1].outcome # "no file") =>
            /\ observed[l][1].outcome = "loaded"
            /\ observed[l][1].document \in {OldDocument, NewDocument}

(***************************************************************************)
(* Request handlers (backend/app.py): /api/query and /api/execute.         *)
(*                                                                         *)
(* A question is the sequence of its words, separated by white space; a    *)
(* keyword test `kw in q` is a substring test, decided word by word since  *)
(* no keyword holds a blank.  SQL is a sequence of tokens, as for the      *)
(* schema repair; the templates keep their FROM clause, the first JOIN on  *)
(* another schema and their LIMIT, the select list and ordering are left   *)
(* out.  A blank stands for the line break a template begins and ends      *)
(* with.                                                                   *)
(***************************************************************************)
NoTemplate == <<>>

\* str(limit)
NumberToken(n) ==
    CASE n = 3 -> "3"
      [] n = 5 -> "5"
      [] n = 7 -> "7"
      [] n = 10 -> "10"
      [] n = 100 -> "100"

\* int(match.group(1))
NumberWords == {"3", "5", "05", "7"}
IntOf(w) ==
    CASE w = "3" -> 3
      [] w = "5" -> 5
      [] w = "05" -> 5
      [] w = "7" -> 7

SelectFrom(schema, table) ==
    <<Blank, "SELECT", Blank, "*", Blank, "FROM", Blank, schema, Dot, table>>

Limit(n) == <<Blank, "LIMIT", Blank, NumberToken(n), Blank>>

DefaultLimit == 10
FixedLimit == 100

ProductDisbursementSql == SelectFrom("encoredb", "loan_od_disbursements") \o Limit(FixedLimit)
TopCustomersSql(limit) == SelectFrom("encoredb", "customers") \o Limit(limit)
ProductLoanCountSql == SelectFrom("encoredb", "loan_od_working_registers") \o Limit(FixedLimit)
LoanAccountsSql(limit) ==
    SelectFrom("financialForms", "loan_accounts") \o <<Blank, "la">> \o Limit(limit)
OutstandingSql ==
    SelectFrom("encoredb", "loan_od_working_registers")
      \o <<Blank, "WHERE", Blank, "id", "=", "1", Blank>>
BranchCollectionSql ==
    SelectFrom("encoredb", "loan_od_repayments")
      \o <<Blank, "JOIN", Blank, "financialForms", Dot, "loan_accounts", Blank, "la">>
      \o Limit(FixedLimit)
RepaymentSql == SelectFrom("encoredb", "loan_od_repayments") \o Limit(FixedLimit)

\* re.search(kw + r'\s+(\d+)', q): <<the number>> of the leftmost match, <<>> if none
NumberAfter(q, kw) ==
    LET hits == {i \in 1..(Len(q) - 1) : q[i] = kw /\ q[i + 1] \in NumberWords}
    IN  IF hits = {} THEN <<>> ELSE <<IntOf(q[Minimum(hits) + 1])>>

\* limit = 10; match = re.search(...); if match: limit = int(match.group(1))
LimitFrom(match) == IF match = <<>> THEN DefaultLimit ELSE match[1]

\* the second if-statement with 'loan' in q or 'amount' in q
TopCustomersRuleLoose(w) ==
    (Has(w, "top") \/ Has(w, "customer")) /\ (Has(w, "loan") \/ Has(w, "amount"))

TopCustomersRule(w) ==
    (Has(w, "top") \/ Has(w, "customer")) /\ (Has(w, "loan") /\ Has(w, "amount"))

quick_pattern_match(asked) ==
    LET q == [i \in 1..Len(asked) |-> LowerWord(asked[i])]
        w == {q[i] : i \in 1..Len(q)}
    IN  IF Has(w, "product") /\ Has(w, "disburs") THEN ProductDisbursementSql
        ELSE IF TopCustomersRule(w)
        THEN TopCustomersSql(IF Has(w, "top") THEN LimitFrom(NumberAfter(q, "top"))
                             ELSE DefaultLimit)
        ELSE IF Has(w, "product") /\ (Has(w, "count") \/ Has(w, "number")) /\ Has(w, "loan")
        THEN ProductLoanCountSql
        ELSE IF (Has(w, "loan") /\ Has(w, "account"))
                  /\ (Has(w, "first") \/ Has(w, "show") \/ Has(w, "list") \/ Has(w, "top"))
        THEN LoanAccountsSql(IF Has(w, "first") THEN LimitFrom(NumberAfter(q, "first"))
                             ELSE IF Has(w, "top") THEN LimitFrom(NumberAfter(q, "top"))
                             ELSE DefaultLimit)
        ELSE IF (Has(w, "outstanding") \/ Has(w, "portfolio")) /\ (Has(w, "total") \/ Has(w, "sum"))
        THEN OutstandingSql
        ELSE IF Has(w, "branch") /\ (Has(w, "collection") \/ Has(w, "repayment"))
        THEN BranchCollectionSql
        ELSE IF (Has(w, "repayment") \/ Has(w, "collection")) /\ ~Has(w, "disbursement")
        THEN RepaymentSql
        ELSE NoTemplate

\* ---- validate_sql_query ---------------------------------------------------
Semicolon == ";"

dangerous_keywords ==
    {"INSERT", "UPDATE", "DELETE", "DROP", "TRUNCATE", "ALTER", "CREATE", "GRANT", "REVOKE",
     "EXEC", "EXECUTE", "CALL", "MERGE", "REPLACE", "LOAD", "COPY", "LOCK", "UNLOCK"}

\* sql.strip()
sql_strip(s) ==
    LET inked == {i \in 1..Len(s) : ~IsSpace(s[i])}
    IN  IF inked = {} THEN <<>> ELSE SubSeq(s, Minimum(inked), Maximum(inked))

\* re.search(r'\b' + keyword + r'\b', sql_upper) for some dangerous keyword
HasDangerousKeyword(s) ==
    \E i \in 1..Len(s) :
        /\ UpperTok(s[i]) \in dangerous_keywords
        /\ WordBoundary(s, i - 1)
        /\ WordBoundary(s, i)

\* sql_upper.startswith('SELECT')
StartsWithSelect(s) == s # <<>> /\ UpperTok(s[1]) = "SELECT"

\* sql_upper.split('UNION'): every non-blank part starts with SELECT
UnionPartsSelect(s) ==
    LET parts == SplitAt(s, {i \in 1..Len(s) : UpperTok(s[i]) = "UNION"})
    IN  \A k \in 1..Len(parts) :
            sql_strip(parts[k]) # <<>> => StartsWithSelect(sql_strip(parts[k]))

\* validate_sql_query accepting every text
validate_sql_query_accepts_all(text) == TRUE

\* is_valid of validate_sql_query
validate_sql_query(text) ==
    LET sql_upper == sql_strip(text)
        semicolons == Cardinality({i \in 1..Len(sql_upper) : sql_upper[i] = Semicolon})
    IN  /\ sql_upper # <<>>
        /\ ~HasDangerousKeyword(sql_upper)
        /\ StartsWithSelect(sql_upper)
        /\ ~ (semicolons > 1
                \/ (semicolons = 1 /\ sql_upper[Len(sql_upper)] # Semicolon))
        /\ UnionPartsSelect(sql_upper)

\* ---- the inputs of a request ----------------------------------------------
\* "show top 5 loan accounts"
ExampleQuestion == <<"show", "top", "5", "loan", "accounts">>

\* data.get('question', '').strip(), as a sequence of words (<<>>: '' or blank)
RequestQuestions ==
    {<<>>, ExampleQuestion,
     <<"Show", "loan", "accounts">>,
     <<"loan", "accounts", "top">>,
     <<"top", "loan", "5", "accounts">>,
     <<"first", "7", "loan", "accounts", "top", "3">>,
     <<"Top", "05", "customers", "loan", "amount">>,
     <<"customer", "loan", "amount", "7">>,
     <<"Product", "disbursement">>,
     <<"product", "loan", "count">>,
     <<"total", "outstanding">>,
     <<"branch", "collection">>,
     <<"repayment">>,
     <<"collection", "disbursement">>,
     <<"customer", "loan">>,
     <<"hello">>}

SelectOne == <<"SELECT", Blank, "1">>
SelectBare == <<"select", Blank, "*", Blank, "from", Blank, "loan_accounts">>
SelectQualified == <<"SELECT", Blank, "*", Blank, "FROM", Blank, "encoredb", Dot, "customers">>
DescribeSql == <<"DESCRIBE", Blank, "loan_accounts">>
\* DELETE FROM loan_accounts WHERE id IN (SELECT 1)
DeleteSql ==
    <<"DELETE", Blank, "FROM", Blank, "loan_accounts", Blank, "WHERE", Blank, "id", Blank,
      "IN", Blank, "(", "SELECT", Blank, "1", ")">>

\* data.get('sql', ''), before .strip()
RequestSqls ==
    {<<>>, <<Blank>>, ExampleSql, <<Blank>> \o SelectBare \o <<Blanks>>, SelectQualified,
     DeleteSql, DescribeSql,
     SelectOne \o <<Semicolon>>,
     SelectOne \o <<Semicolon, Blank, "DROP", Blank, "TABLE", Blank, "x">>,
     SelectOne \o <<Semicolon>> \o SelectOne,
     SelectOne \o <<Blank, "UNION", Blank>> \o SelectBare,
     SelectOne \o <<Blank, "UNION", Blank, "x">>}
      \cup {<<"SELECT", Blank, "*", Blank>> \o phrase : phrase \in Phrases}

Requests ==
    {[endpoint |-> "query", question |-> q, sql |-> <<>>] : q \in RequestQuestions}
      \cup {[endpoint |-> "execute", question |-> <<>>, sql |-> t] : t \in RequestSqls}

\* ---- the agent's intermediate steps ----------------------------------------
\* the bounds on len(obs_str)
ObsMin == 20
ObsMax == 2000

\* str(observation): its length, and <<the match of SELECT.*?(?:;|$),
\* stripped>> when it contains SELECT (<<>> when it does not)
Observation(length, found) == [length |-> length, sql |-> found]
PlainObs == Observation(ObsMin + 80, <<>>)

\* a step: pair (len(step) >= 2), the action's tool ("None": the action has
\* no tool attribute) and tool_input, the observation
Step(tool, input, observation) ==
    [pair |-> TRUE, tool |-> tool, input |-> input, observation |-> observation]

StepKinds ==
    {[pair |-> FALSE, tool |-> "None", input |-> <<>>, observation |-> PlainObs],
     Step("None", <<>>, Observation(ObsMin + 80, <<SelectBare>>)),
     Step("sql_db_schema", <<>>, PlainObs),
     Step("sql_db_schema", <<>>, Observation(ObsMin, <<SelectOne>>)),
     Step("sql_db_schema", <<>>, Observation(ObsMin + 1, <<SelectOne>>)),
     Step("sql_db_schema", <<>>, Observation(ObsMax - 1, <<SelectQualified>>)),
     Step("sql_db_schema", <<>>, Observation(ObsMax, <<SelectBare>>)),
     Step("sql_db_query", SelectBare, PlainObs),
     Step("sql_db_query", <<>>, PlainObs),
     Step("sql_db_query", DescribeSql, Observation(ObsMin + 80, <<SelectQualified>>)),
     Step("sql_db_query_checker", DeleteSql, PlainObs),
     Step("query_sql_db", SelectQualified, Observation(ObsMin + 80, <<SelectBare>>))}

MaxSteps == 2

\* result.get('intermediate_steps', [])
StepLists == SeqsUpTo(StepKinds, MaxSteps)

\* ---- process_query: the loop over the steps --------------------------------
RecognisedTools == {"sql_db_query", "sql_db_query_checker", "query_sql_db", "query_sql_database"}

\* 'SELECT' in str(query).upper()
HasSelect(text) == \E i \in 1..Len(text) : UpperTok(text[i]) = "SELECT"

\* 'SELECT' in obs_str.upper()
ObsContainsSelect(observation) == observation.sql # <<>>

\* 'SELECT' in obs_str.upper() and len(obs_str) > 20 and len(obs_str) < 2000
ObsQualifies(observation) ==
    /\ observation.sql # <<>>
    /\ observation.length > ObsMin
    /\ observation.length < ObsMax

\* one pass of the loop body: sql_query (<<>>: None) after the step
StepSql(step, current) ==
    IF ~step.pair THEN current
    ELSE LET after_tool ==
                 IF step.tool \in RecognisedTools /\ step.input # <<>> /\ HasSelect(step.input)
                 THEN <<step.input>> ELSE current
         IN  IF ObsQualifies(step.observation) /\ after_tool = <<>>
             THEN step.observation.sql ELSE after_tool

RECURSIVE ExtractSql(_, _, _)
ExtractSql(list, i, current) ==
    IF i > Len(list) THEN current
    ELSE ExtractSql(list, i + 1, StepSql(list[i], current))

\* ---- the handlers ------------------------------------------------------------
Outcomes == {"ok", "raises"}
AgentOutcomes == {"initialize_agent raises", "invoke raises", "returns"}

\* get_knowledge_base() raises (<<>>) or returns a provider with this knowledge
KnowledgeBases == {<<>>, <<TableKnowledge>>, <<QueriesKnowledge>>, <<[keys |-> {}]>>}

Response(status, text) == [status |-> status, sql |-> text]

\* the step of the fast path: (obj(tool='sql_db_query', tool_input=quick_sql), results)
QuickStep(quick_sql) == Step("sql_db_query", quick_sql, PlainObs)

\* after execute_query(quick_sql): return the template's step, or fall
\* through to the agent when it raised
AfterQuickAlwaysAgent(outcome) == "agent"

AfterQuick(outcome) == IF outcome = "ok" THEN "extract" ELSE "agent"

\* cursor.execute(sql) of execute_query, after its sql = fix_sql_schema_prefixes(sql)
Sent(text) == fix_sql_schema_prefixes(text)

RequestInit ==
    /\ request \in Requests
    /\ world = <<>>
    /\ steps = <<>>
    /\ executed = <<>>
    /\ invoked = <<>>
    /\ sql_query = <<>>
    /\ response = <<>>
    /\ hpc = "received"
    /\ RepairIdle
    /\ KBIdle
    /\ PatternIdle
    /\ BuildIdle
    /\ MineIdle
    /\ AnalyzeIdle
    /\ ProviderIdle
    /\ RebuildIdle

\* process_query: if not question: 400
ProcessQueryRejects ==
    /\ hpc = "received"
    /\ request.endpoint = "query"
    /\ request.question = <<>>
    /\ response' = <<Response(400, <<>>)>>
    /\ hpc' = "done"
    /\ UNCHANGED <<request, world, steps, executed, invoked, sql_query>>
    /\ UNCHANGED <<repairVars, kbVars, patternVars, buildVars, mineVars, analyzeVars,
                   providerVars, rebuildVars>>

\* generate_sql_with_agent, the fast path
GenerateQuick ==
    /\ hpc = "received"
    /\ request.endpoint = "query"
    /\ request.question # <<>>
    /\ LET quick_sql == quick_pattern_match(request.question)
       IN  IF quick_sql = NoTemplate
           THEN /\ hpc' = "agent"
                /\ UNCHANGED <<world, steps, executed>>
           ELSE \E outcome \in Outcomes :
                   /\ executed' = Append(executed, Sent(quick_sql))
                   /\ world' = Append(world, outcome)
                   /\ steps' = IF outcome = "ok" THEN <<QuickStep(quick_sql)>> ELSE steps
                   /\ hpc' = AfterQuick(outcome)
    /\ UNCHANGED <<request, invoked, sql_query, response>>
    /\ UNCHANGED <<repairVars, kbVars, patternVars, buildVars, mineVars, analyzeVars,
                   providerVars, rebuildVars>>

\* enhanced_question: kb.enhance_question(question), or the question itself
\* when the knowledge base raised
EnhancedQuestion(kb, asked) ==
    LET words == {asked[i] : i \in 1..Len(asked)}
    IN  IF kb = <<>> THEN [question |-> words, enhancements |-> <<>>]
        ELSE enhance_question(kb[1], <<words>>)

\* generate_sql_with_agent after the fast path, and process_query's answer
\* to {"error": ...}
GenerateAgent ==
    /\ hpc = "agent"
    /\ \E outcome \in AgentOutcomes, kb \in KnowledgeBases, result \in StepLists :
          LET enhanced_question == EnhancedQuestion(kb, request.question)
          IN  CASE outcome = "initialize_agent raises" ->
                      /\ invoked' = <<[call |-> "initialize_agent"]>>
                      /\ response' = <<Response(500, <<>>)>>
                      /\ steps' = steps
                      /\ hpc' = "done"
                [] outcome = "invoke raises" ->
                      /\ invoked' = <<[call |-> "initialize_agent"],
                                      [call |-> "invoke", input |-> enhanced_question]>>
                      /\ response' = <<Response(500, <<>>)>>
                      /\ steps' = steps
                      /\ hpc' = "done"
                [] outcome = "returns" ->
                      /\ invoked' = <<[call |-> "initialize_agent"],
                                      [call |-> "invoke", input |-> enhanced_question]>>
                      /\ response' = response
                      /\ steps' = result
                      /\ hpc' = "extract"
    /\ UNCHANGED <<request, world, executed, sql_query>>
    /\ UNCHANGED <<repairVars, kbVars, patternVars, buildVars, mineVars, analyzeVars,
                   providerVars, rebuildVars>>

\* process_query: the loop over intermediate_steps; 400 when no SQL was found
ProcessQueryExtract ==
    /\ hpc = "extract"
    /\ sql_query' = ExtractSql(steps, 1, <<>>)
    /\ IF sql_query' = <<>>
       THEN response' = <<Response(400, <<>>)>> /\ hpc' = "done"
       ELSE response' = response /\ hpc' = "execute"
    /\ UNCHANGED <<request, world, steps, executed, invoked>>
    /\ UNCHANGED <<repairVars, kbVars, patternVars, buildVars, mineVars, analyzeVars,
                   providerVars, rebuildVars>>

\* process_query: if sql_query: repair, execute_query, success response
\* (also when execute_query raised)
ProcessQueryExecute ==
    /\ hpc = "execute"
    /\ \E outcome \in Outcomes :
          LET fixed == fix_sql_schema_prefixes(sql_query[1])
          IN  /\ executed' = Append(executed, Sent(fixed))
              /\ world' = Append(world, outcome)
              /\ response' = <<Response(200, <<fixed>>)>>
    /\ hpc' = "done"
    /\ UNCHANGED <<request, steps, invoked, sql_query>>
    /\ UNCHANGED <<repairVars, kbVars, patternVars, buildVars, mineVars, analyzeVars,
                   providerVars, rebuildVars>>

\* execute_custom_query; checked: validate_sql_query is consulted
CustomQuery(checked) ==
    /\ hpc = "received"
    /\ request.endpoint = "execute"
    /\ LET text == sql_strip(request.sql)
       IN  IF text = <<>>
           THEN /\ response' = <<Response(400, <<>>)>>
                /\ UNCHANGED <<world, executed>>
           ELSE IF checked /\ ~validate_sql_query(text)
           THEN /\ response' = <<Response(403, <<text>>)>>
                /\ UNCHANGED <<world, executed>>
           ELSE \E outcome \in Outcomes :
                   LET fixed == fix_sql_schema_prefixes(text)
                   IN  /\ executed' = Append(executed, Sent(fixed))
                       /\ world' = Append(world, outcome)
                       /\ response' = IF outcome = "ok" THEN <<Response(200, <<fixed>>)>>
                                      ELSE <<Response(500, <<fixed>>)>>
    /\ hpc' = "done"
    /\ UNCHANGED <<request, steps, invoked, sql_query>>
    /\ UNCHANGED <<repairVars, kbVars, patternVars, buildVars, mineVars, analyzeVars,
                   providerVars, rebuildVars>>

ExecuteCustomQueryUnchecked == CustomQuery(FALSE)

ExecuteCustomQuery == CustomQuery(TRUE)

RequestNext ==
    \/ ProcessQueryRejects
    \/ GenerateQuick
    \/ GenerateAgent
    \/ ProcessQueryExtract
    \/ ProcessQueryExecute
    \/ ExecuteCustomQuery

SpecRequest == RequestInit /\ [][RequestNext]_vars

\* C26: for the question 'show top 5 loan accounts', quick_pattern_match
\* selects the loan-accounts template (FROM financialForms.loan_accounts)
\* with LIMIT 5, not the product-disbursement or top-customers template,
\* and get_query_pattern returns no exemplar of the product_disbursement
\* bucket (none at all), whatever the artifact holds.
C26_ExampleQuestionGetsLoanAccounts ==
    (request.endpoint = "query" /\ request.question = ExampleQuestion /\ hpc # "received") =>
        /\ executed # <<>>
        /\ executed[1] = LoanAccountsSql(5)
        /\ \A i \in 1..Len(invoked) :
              invoked[i].call = "invoke" =>
                 \A n \in 1..Len(invoked[i].input.enhancements) :
                    invoked[i].input.enhancements[n].kind # "pattern"

\* the example question, its template refused by the database, enhanced by
\* a provider whose product_disbursement bucket holds an exemplar
C26_Witness ==
    /\ request.question = ExampleQuestion
    /\ world = <<"raises">>
    /\ executed = <<LoanAccountsSql(5)>>
    /\ Len(invoked) = 2
    /\ invoked[2].input = enhance_question(TableKnowledge, <<{"show", "top", "5", "loan", "accounts"}>>)
    /\ invoked[2].input.enhancements # <<>>

\* C27 (as claimed): every SQL text that execute_query sends to the
\* database, on any request path, is a text validate_sql_query accepts.
C27_ExecutedTextsPassValidation ==
    \A i \in 1..Len(executed) : validate_sql_query(executed[i])

\* C28: in generate_sql_with_agent the agent is reached if and only if
\* quick_pattern_match returned no template or executing the template
\* raised; when the template executed, the result holds that template as
\* its single intermediate step and the agent is not invoked.
C28_FastPathExcludesAgent ==
    (request.endpoint = "query" /\ request.question # <<>> /\ hpc \notin {"received", "agent"}) =>
        LET quick_sql == quick_pattern_match(request.question)
            raised == quick_sql # NoTemplate /\ world[1] = "raises"
        IN  /\ (invoked # <<>>) <=> (quick_sql = NoTemplate \/ raised)
            /\ (quick_sql # NoTemplate /\ world[1] = "ok") =>
                  /\ invoked = <<>>
                  /\ Len(steps) = 1
                  /\ steps[1].tool = "sql_db_query"
                  /\ steps[1].input = quick_sql

\* a template that executed: the request ends without the agent, the
\* template selected from its single step and executed again
C28_Witness ==
    /\ request.endpoint = "query"
    /\ quick_pattern_match(request.question) # NoTemplate
    /\ hpc = "done"
    /\ world[1] = "ok"
    /\ invoked = <<>>
    /\ steps = <<QuickStep(quick_pattern_match(request.question))>>
    /\ sql_query = <<quick_pattern_match(request.question)>>
    /\ Len(executed) = 2

\* C29: in /api/execute an empty SQL is answered with 400 and a rejected
\* SQL with 403, both without any database access; execute_query is called
\* only for a text validate_sql_query accepted; the SQL of a success
\* response is the text that was executed.
C29_ExecuteOnlyAfterValidation ==
    (request.endpoint = "execute" /\ hpc = "done") =>
        LET text == sql_strip(request.sql)
        IN  /\ text = <<>> => (response[1].status = 400 /\ executed = <<>>)
            /\ (text # <<>> /\ ~validate_sql_query(text)) =>
                  (response[1].status = 403 /\ executed = <<>>)
            /\ executed # <<>> => (validate_sql_query(text) /\ Len(executed) = 1)
            /\ response[1].status = 200 => response[1].sql = <<executed[1]>>

\* a bare table reference, accepted, repaired and executed
C29_Witness ==
    /\ request.endpoint = "execute"
    /\ hpc = "done"
    /\ response[1].status = 200
    /\ response[1].sql # <<sql_strip(request.sql)>>
    /\ executed = response[1].sql

\* the steps that ran a recognised SQL tool with an input containing SELECT
SelectToolSteps ==
    {i \in 1..Len(steps) :
        /\ steps[i].pair
        /\ steps[i].tool \in RecognisedTools
        /\ HasSelect(steps[i].input)}

\* the steps whose observation contains a SELECT
SelectObservations ==
    {i \in 1..Len(steps) : steps[i].pair /\ steps[i].observation.sql # <<>>}

\* ... and is longer than 20 and shorter than 2000 characters
SizedSelectObservations ==
    {i \in SelectObservations :
        steps[i].observation.length > ObsMin /\ steps[i].observation.length < ObsMax}

\* C30 (as claimed): after the loop over the steps, the final SQL is the
\* input of the last step that ran a recognised SQL tool with an input
\* containing SELECT; when there is no such step it is the SQL of the first
\* observation that contains a SELECT (none if there is none).
C30_FirstSelectObservation ==
    hpc \in {"execute", "done"} =>
        IF SelectToolSteps # {}
        THEN sql_query = <<steps[Maximum(SelectToolSteps)].input>>
        ELSE IF SelectObservations # {}
        THEN sql_query = steps[Minimum(SelectObservations)].observation.sql
        ELSE sql_query = <<>>

\* C30 (amended): ... when there is no such step it is the SQL of the first
\* observation that contains a SELECT and is longer than 20 and shorter
\* than 2000 characters (none if there is none).
C30_FirstSizedSelectObservation ==
    hpc \in {"execute", "done"} =>
        IF SelectToolSteps # {}
        THEN sql_query = <<steps[Maximum(SelectToolSteps)].input>>
        ELSE IF SizedSelectObservations # {}
        THEN sql_query = steps[Minimum(SizedSelectObservations)].observation.sql
        ELSE sql_query = <<>>

\* no tool step with a SELECT; the first observation with a SELECT is too
\* short and the SQL of the second is taken
C30_Witness ==
    /\ hpc = "execute"
    /\ SelectToolSteps = {}
    /\ Len(steps) = 2
    /\ SelectObservations = {1, 2}
    /\ SizedSelectObservations = {2}
    /\ sql_query = steps[2].observation.sql
    /\ sql_query # steps[1].observation.sql

====
